---- MODULE Spec2Model ----
(***************************************************************************)
(* Commerce analytics dashboard: the reactive filter-and-aggregate service *)
(* (AnalyticsDataService), its filter function, and the CSV record parser  *)
(* (CsvImportService).                                                     *)
(*                                                                         *)
(* Several specifications share the module:                                *)
(*   Spec           the service as a state machine: record replacement,    *)
(*                  filter updates, asynchronous loads, subscribers        *)
(*   SpecFilter     applyFilters as a pure function of (records, filter)   *)
(*   SpecParse      parseCsvToSalesData as a pure function of the CSV text *)
(*   SpecTokenize   parseCsvLine as a pure function of one line            *)
(*   SpecAggregate  the rollups of a filtered record set                   *)
(*   SpecVirtualize virtualizeData as a pure function of (points, max)     *)
(***************************************************************************)
EXTENDS Integers, Sequences, FiniteSets, TLC

VARIABLES
  \* ---- AnalyticsDataService (Spec)
  salesData,    \* salesDataSubject.value
  filters,      \* filtersSubject.value
  pending,      \* asynchronous loads in flight: set of [id, kind]
  nextOp,       \* number of import requests made so far
  obs,          \* the subscriptions' combineLatest buffers, in subscription order
  last,         \* the operation that ran last and what its caller was told
  \* ---- applyFilters as a function (SpecFilter)
  fData, fFilters, fOut, fPc,
  \* ---- parseCsvToSalesData as a function (SpecParse)
  csvText, parsed, pPc,
  \* ---- parseCsvLine as a function (SpecTokenize)
  tLine, tTokens, tParsed, tPc,
  \* ---- the rollups as functions (SpecAggregate)
  aData, aMetric, aGranularity, aOut, aPc,
  \* ---- virtualizeData as a function (SpecVirtualize)
  vData, maxDataPoints, vOut, vPc,
  \* ---- DataImportComponent (SpecImport)
  isUploading,      \* the isUploading signal
  uploadedFileName, \* the uploadedFileName signal
  importStats,      \* the importStats signal
  uploads,          \* imports the component is waiting for: set of [id, kind, name]
  nextUpload,       \* number of imports the component has started
  snack             \* the handler that ran last, its file and its snack bar message

svcVars    == <<salesData, filters, pending, nextOp, obs, last>>
filterVars == <<fData, fFilters, fOut, fPc>>
parseVars  == <<csvText, parsed, pPc>>
tokVars    == <<tLine, tTokens, tParsed, tPc>>
aggVars    == <<aData, aMetric, aGranularity, aOut, aPc>>
virtVars   == <<vData, maxDataPoints, vOut, vPc>>
compVars   == <<isUploading, uploadedFileName, importStats, uploads, nextUpload, snack>>
vars       == <<svcVars, filterVars, parseVars, tokVars, aggVars, virtVars, compVars>>

(***************************************************************************)
(* Bounds of the model.                                                    *)
(***************************************************************************)
MaxOps == 2         \* import requests (CSV path or file) made during a run
MaxSubscribers == 2 \* subscriptions to filteredSalesData$ or a stream derived from it
MaxRecords == 2     \* length of the record sets drawn for applyFilters
MaxLeading == 1     \* lines drawn between the header and the row under study

(***************************************************************************)
(* Time.  A moment is modelled by its valueOf(), counted in days.          *)
(***************************************************************************)
Now == 40
ThirtyDays == 30

(***************************************************************************)
(* SalesData (analytics.models).  productName is optional: "" stands for   *)
(* an absent or empty name, the code only tests its truthiness.            *)
(***************************************************************************)
SalesItem(id, date, revenue, orders, customerId, productId, productName, category, region) ==
  [id |-> id, date |-> date, revenue |-> revenue, orders |-> orders,
   customerId |-> customerId, productId |-> productId,
   productName |-> productName, category |-> category, region |-> region]

\* Records used as inputs: dated exactly at the default range's start, inside
\* it, exactly at its end, and before it.
RecordPool ==
  { SalesItem("order1", Now - ThirtyDays, 250, 2, "customer1", "product1", "Widget A", "Electronics", "North"),
    SalesItem("order2", Now - 10, 150, 1, "customer2", "product2", "Widget B", "Electronics", "South"),
    SalesItem("order3", Now, 300, 3, "customer1", "product1", "", "Electronics", "North"),
    SalesItem("order4", Now - ThirtyDays - 1, 50, 1, "customer3", "product3", "Widget C", "Home", "East") }

RECURSIVE SeqsUpTo(_, _)
SeqsUpTo(S, n) ==
  IF n = 0 THEN { <<>> }
  ELSE LET shorter == SeqsUpTo(S, n - 1)
       IN  shorter \cup { Append(s, x) : s \in shorter, x \in S }

(***************************************************************************)
(* FilterOptions, and the initial value of filtersSubject.                 *)
(***************************************************************************)
FilterFields == {"dateRange", "regions", "categories", "customerSegments"}

InitialFilters ==
  [dateRange |-> [start |-> Now - ThirtyDays, end |-> Now],
   regions |-> <<>>, categories |-> <<>>, customerSegments |-> <<>>]

\* Array.prototype.includes
Includes(arr, x) == \E i \in 1..Len(arr) : arr[i] = x

\* moment#isBetween(from, to) with its default units and inclusivity '()':
\* strictly after from and strictly before to.
IsBetween(d, from, to) == from < d /\ d < to

ItemPasses(item, f) ==
  LET dateInRange   == IsBetween(item.date, f.dateRange.start, f.dateRange.end)
      regionMatch   == Len(f.regions) = 0 \/ Includes(f.regions, item.region)
      categoryMatch == Len(f.categories) = 0 \/ Includes(f.categories, item.category)
  IN  dateInRange /\ regionMatch /\ categoryMatch

applyFilters(data, f) == SelectSeq(data, LAMBDA item : ItemPasses(item, f))

\* The filter rebuilt from its initial value and the partial alone.
SpreadOverInitial(currentFilters, partial) ==
  [k \in FilterFields |-> IF k \in DOMAIN partial THEN partial[k] ELSE InitialFilters[k]]

\* { ...currentFilters, ...filters }
SpreadMerge(currentFilters, partial) ==
  [k \in (DOMAIN currentFilters) \cup (DOMAIN partial) |->
     IF k \in DOMAIN partial THEN partial[k] ELSE currentFilters[k]]

(***************************************************************************)
(* The derived streams.  dashboardMetrics$, productMetrics$,               *)
(* customerSegments$, regionalPerformance$ and getTimeSeriesData() are each *)
(* filteredSalesData$.pipe(map(f)), and filteredSalesData$ is              *)
(* combineLatest([salesData$, filters$]) mapped through applyFilters.  A   *)
(* subscription to any of them therefore owns one combineLatest buffer     *)
(* holding the latest value seen from each subject, and emits on every     *)
(* value of either one; out is the filtered array it emitted last, the     *)
(* argument of the stream's own map.                                       *)
(***************************************************************************)
Subscription(data, f) ==
  [clData |-> data, clFilters |-> f, out |-> applyFilters(data, f),
   emitted |-> <<applyFilters(data, f)>>]

\* emitted is the sequence of values a subscription's observer received
\* during the last operation of the service; an operation that calls next()
\* on neither subject delivers nothing.
Quiet(o) == [o EXCEPT !.emitted = <<>>]
QuietAll(os) == [i \in 1..Len(os) |-> Quiet(os[i])]

\* combineLatest's reaction to a value from salesData$.
OnSalesData(o, data) ==
  [o EXCEPT !.clData = data, !.out = applyFilters(data, o.clFilters),
            !.emitted = <<applyFilters(data, o.clFilters)>>]

\* A buffer that records the new filter without emitting a new combination.
OnFiltersSilent(o, f) == [o EXCEPT !.clFilters = f, !.emitted = <<>>]

\* combineLatest's reaction to a value from filters$.
OnFilters(o, f) ==
  [o EXCEPT !.clFilters = f, !.out = applyFilters(o.clData, f),
            !.emitted = <<applyFilters(o.clData, f)>>]

\* A replacement of the records that empties the subject before it loads the
\* new records: every subscription sees the empty record set in between.
SalesDataNextAfterReset(data) ==
  /\ salesData' = data
  /\ obs' = [i \in 1..Len(obs) |->
              [OnSalesData(obs[i], data) EXCEPT
                 !.emitted = OnSalesData(obs[i], <<>>).emitted \o @]]

\* salesDataSubject.next(data): the subject keeps the value and hands it to
\* every subscription, synchronously.
SalesDataNext(data) ==
  /\ salesData' = data
  /\ obs' = [i \in 1..Len(obs) |-> OnSalesData(obs[i], data)]

\* filtersSubject.next(f)
FiltersNext(f) ==
  /\ filters' = f
  /\ obs' = [i \in 1..Len(obs) |-> OnFilters(obs[i], f)]

(***************************************************************************)
(* Inputs of the service's operations.                                     *)
(***************************************************************************)
\* What a load can deliver (the SalesData[] the import service resolves to).
ImportResults ==
  LET r(id) == CHOOSE x \in RecordPool : x.id = id
  IN  { <<>>,
        <<r("order1"), r("order2")>>,
        <<r("order2"), r("order3"), r("order4")>> }

\* Partial<FilterOptions> arguments of updateFilters.
Partials ==
  { [regions |-> <<"North">>],
    [categories |-> <<"Electronics">>],
    [dateRange |-> [start |-> Now - 10, end |-> Now]],
    [customerSegments |-> <<"High Value">>],
    [regions |-> <<>>, categories |-> <<>>] }

NoPartial == [none |-> TRUE]
Ran(op, partial, reported) == [op |-> op, partial |-> partial, reported |-> reported]

(***************************************************************************)
(* Idle values of the variables a specification does not use.              *)
(***************************************************************************)
FilterIdle ==
  /\ fData = <<>> /\ fFilters = InitialFilters /\ fOut = <<>> /\ fPc = "idle"
NotParsed == [threw |-> FALSE, data |-> <<>>, warnings |-> <<>>]
ParseIdle ==
  /\ csvText = <<>> /\ parsed = NotParsed /\ pPc = "idle"

TokIdle ==
  /\ tLine = <<>> /\ tTokens = <<>> /\ tParsed = NotParsed /\ tPc = "idle"
AggIdle ==
  /\ aData = <<>> /\ aMetric = "none" /\ aGranularity = "none"
  /\ aOut = <<>> /\ aPc = "idle"
VirtIdle ==
  /\ vData = <<>> /\ maxDataPoints = 0 /\ vOut = <<>> /\ vPc = "idle"
\* null, and a value that is not null
Null == [null |-> TRUE]
Some(v) == [value |-> v]
Handled(op, file, message) == [op |-> op, file |-> file, message |-> message]
NoFile == [name |-> <<>>, size |-> 0]
CompIdle ==
  /\ isUploading = FALSE /\ uploadedFileName = Null /\ importStats = Null
  /\ uploads = {} /\ nextUpload = 0 /\ snack = Handled("idle", NoFile, "")
FunctionsIdle == TokIdle /\ AggIdle /\ VirtIdle /\ CompIdle
functionVars == <<tokVars, aggVars, virtVars, compVars>>

SvcFrame == UNCHANGED <<filterVars, parseVars, functionVars>>

(***************************************************************************)
(* AnalyticsDataService.  The state after construction: both subjects hold *)
(* their initial value and the constructor's sample load is in flight.     *)
(***************************************************************************)
SvcInit ==
  /\ salesData = <<>>
  /\ filters = InitialFilters
  /\ pending = { [id |-> 0, kind |-> "sample"] }
  /\ nextOp = 0
  /\ obs = <<>>
  /\ last = Ran("constructor", NoPartial, "none")

Init == SvcInit /\ FilterIdle /\ ParseIdle /\ FunctionsIdle

\* A consumer subscribes to a derived stream: combineLatest subscribes to both
\* BehaviorSubjects, each replays its current value, and the first combination
\* is emitted.
Subscribe ==
  /\ Len(obs) < MaxSubscribers
  /\ obs' = Append(QuietAll(obs), Subscription(salesData, filters))
  /\ last' = Ran("subscribe", NoPartial, "none")
  /\ UNCHANGED <<salesData, filters, pending, nextOp>>
  /\ SvcFrame

updateFilters(partial) ==
  /\ FiltersNext(SpreadMerge(filters, partial))
  /\ last' = Ran("updateFilters", partial, "none")
  /\ UNCHANGED <<salesData, pending, nextOp>>
  /\ SvcFrame

clearData ==
  /\ SalesDataNext(<<>>)
  /\ last' = Ran("clearData", NoPartial, "none")
  /\ UNCHANGED <<filters, pending, nextOp>>
  /\ SvcFrame

\* loadSampleDataFromAssets, the load succeeding: subscribe((data) => next(data)).
SampleLoaded(data) ==
  /\ [id |-> 0, kind |-> "sample"] \in pending
  /\ pending' = pending \ { [id |-> 0, kind |-> "sample"] }
  /\ SalesDataNext(data)
  /\ last' = Ran("sampleLoaded", NoPartial, "none")
  /\ UNCHANGED <<filters, nextOp>>
  /\ SvcFrame

\* The load failing with no catchError: the error ends the subscription and
\* the subject is never given a value.
SampleFailedUncaught ==
  /\ [id |-> 0, kind |-> "sample"] \in pending
  /\ pending' = pending \ { [id |-> 0, kind |-> "sample"] }
  /\ last' = Ran("sampleFailed", NoPartial, "none")
  /\ obs' = QuietAll(obs)
  /\ UNCHANGED <<salesData, filters, nextOp>>
  /\ SvcFrame

\* loadSampleDataFromAssets, the load failing: catchError replaces the error
\* by of([]), which reaches the same subscriber.
SampleFailed ==
  /\ [id |-> 0, kind |-> "sample"] \in pending
  /\ pending' = pending \ { [id |-> 0, kind |-> "sample"] }
  /\ SalesDataNext(<<>>)
  /\ last' = Ran("sampleFailed", NoPartial, "none")
  /\ UNCHANGED <<filters, nextOp>>
  /\ SvcFrame

\* A caller subscribes to importSalesDataFromCsv(path), or calls
\* importSalesDataFromFile(file): the fetch or the read starts.
ImportStart(kind) ==
  /\ nextOp < MaxOps
  /\ nextOp' = nextOp + 1
  /\ pending' = pending \cup { [id |-> nextOp + 1, kind |-> kind] }
  /\ last' = Ran("importStart", NoPartial, "none")
  /\ obs' = QuietAll(obs)
  /\ UNCHANGED <<salesData, filters>>
  /\ SvcFrame

\* importSalesDataFromCsv: map((data) => { next(data); return data; })
importSalesDataFromCsvOk(op, data) ==
  /\ op \in pending /\ op.kind = "csv"
  /\ pending' = pending \ {op}
  /\ SalesDataNext(data)
  /\ last' = Ran("importCsvOk", NoPartial, "data")
  /\ UNCHANGED <<filters, nextOp>>
  /\ SvcFrame

\* importSalesDataFromCsv, the source failing: map is skipped and the error
\* reaches the caller's error callback.
importSalesDataFromCsvFailed(op) ==
  /\ op \in pending /\ op.kind = "csv"
  /\ pending' = pending \ {op}
  /\ last' = Ran("importCsvFailed", NoPartial, "error")
  /\ obs' = QuietAll(obs)
  /\ UNCHANGED <<salesData, filters, nextOp>>
  /\ SvcFrame

\* An import from a file that adds its records to the ones already there.
importSalesDataFromFileAppending(op, data) ==
  /\ op \in pending /\ op.kind = "file"
  /\ pending' = pending \ {op}
  /\ SalesDataNext(salesData \o data)
  /\ last' = Ran("importFileOk", NoPartial, "data")
  /\ UNCHANGED <<filters, nextOp>>
  /\ SvcFrame

\* importSalesDataFromFile: data = await parseUploadedFile(file); next(data)
importSalesDataFromFileOk(op, data) ==
  /\ op \in pending /\ op.kind = "file"
  /\ pending' = pending \ {op}
  /\ SalesDataNext(data)
  /\ last' = Ran("importFileOk", NoPartial, "data")
  /\ UNCHANGED <<filters, nextOp>>
  /\ SvcFrame

\* importSalesDataFromFile, parseUploadedFile rejecting: the await throws and
\* the returned promise rejects.
importSalesDataFromFileFailed(op) ==
  /\ op \in pending /\ op.kind = "file"
  /\ pending' = pending \ {op}
  /\ last' = Ran("importFileFailed", NoPartial, "error")
  /\ obs' = QuietAll(obs)
  /\ UNCHANGED <<salesData, filters, nextOp>>
  /\ SvcFrame

Next ==
  \/ Subscribe
  \/ \E p \in Partials : updateFilters(p)
  \/ clearData
  \/ \E d \in ImportResults : SampleLoaded(d)
  \/ SampleFailed
  \/ \E k \in {"csv", "file"} : ImportStart(k)
  \/ \E op \in pending, d \in ImportResults : importSalesDataFromCsvOk(op, d)
  \/ \E op \in pending : importSalesDataFromCsvFailed(op)
  \/ \E op \in pending, d \in ImportResults : importSalesDataFromFileOk(op, d)
  \/ \E op \in pending : importSalesDataFromFileFailed(op)

Spec == Init /\ [][Next]_vars


(***************************************************************************)
(* applyFilters as a function: the inputs are drawn at the start, the one  *)
(* action applies it.                                                      *)
(***************************************************************************)
SvcIdle ==
  /\ salesData = <<>> /\ filters = InitialFilters /\ pending = {}
  /\ nextOp = 0 /\ obs = <<>> /\ last = Ran("idle", NoPartial, "none")

DateBounds == {Now - ThirtyDays, Now - 10, Now}

FilterUniverse ==
  { [dateRange |-> [start |-> s, end |-> e], regions |-> r, categories |-> c,
     customerSegments |-> g] :
      s \in DateBounds, e \in DateBounds,
      r \in { <<>>, <<"North">>, <<"North", "South">> },
      c \in { <<>>, <<"Electronics">>, <<"Home">> },
      g \in { <<>>, <<"High Value">> } }

FilterInit ==
  /\ fData \in SeqsUpTo(RecordPool, MaxRecords)
  /\ fFilters \in FilterUniverse
  /\ fOut = <<>>
  /\ fPc = "start"

FilterApply ==
  /\ fPc = "start"
  /\ fOut' = applyFilters(fData, fFilters)
  /\ fPc' = "done"
  /\ UNCHANGED <<fData, fFilters, svcVars, parseVars, functionVars>>

InitFilter == FilterInit /\ SvcIdle /\ ParseIdle /\ FunctionsIdle

SpecFilter == InitFilter /\ [][FilterApply]_vars

(***************************************************************************)
(* Claims about the filter and the service.                                *)
(***************************************************************************)

\* C1: the filtered view is exactly the records whose date lies in
\* [dateRange.start, dateRange.end], both bounds inclusive, and whose region
\* and category pass the (empty = unrestricted) region and category lists.
InclusiveSelection(item, f) ==
  /\ f.dateRange.start <= item.date /\ item.date <= f.dateRange.end
  /\ (Len(f.regions) = 0 \/ Includes(f.regions, item.region))
  /\ (Len(f.categories) = 0 \/ Includes(f.categories, item.category))

C1_FilteredViewIsInclusive ==
  fPc = "done" =>
    fOut = SelectSeq(fData, LAMBDA item : InclusiveSelection(item, fFilters))

\* C2: every subscription's latest emission was computed from the pair
\* (records, filter) that is the service's current state: its buffer holds
\* the current record set and the current filter, never one of them stale.
C2_ConsistentSnapshot ==
  \A i \in 1..Len(obs) :
    /\ obs[i].clData = salesData
    /\ obs[i].clFilters = filters
    /\ obs[i].out = applyFilters(salesData, filters)

C2_Witness ==
  /\ Len(obs) >= 1
  /\ salesData # <<>>
  /\ filters # InitialFilters
  /\ obs[1].out # <<>>
  /\ obs[1].out # salesData

\* C3: a step of updateFilters(partial) gives every field named in partial
\* its new value and leaves every other field as it was; {regions: North}
\* followed by {categories: Electronics} leaves both restrictions active.
C3_UpdateFiltersMerges ==
  [][ last'.op = "updateFilters" =>
        /\ DOMAIN filters' = FilterFields
        /\ \A k \in FilterFields :
             filters'[k] = IF k \in DOMAIN last'.partial
                           THEN last'.partial[k] ELSE filters[k]
        /\ ( /\ last.op = "updateFilters"
             /\ last.partial = [regions |-> <<"North">>]
             /\ last'.partial = [categories |-> <<"Electronics">>] )
           => ( /\ filters'.regions = <<"North">>
                /\ filters'.categories = <<"Electronics">> )
    ]_vars

C3_Witness ==
  /\ last.op = "updateFilters"
  /\ last.partial = [categories |-> <<"Electronics">>]
  /\ filters.regions = <<"North">>
  /\ filters.categories = <<"Electronics">>
  /\ filters.customerSegments = <<"High Value">>

\* C4: an import that fails is reported to its caller and leaves the record
\* set empty.
C4_FailedImportEmptiesRecords ==
  last.op \in {"importCsvFailed", "importFileFailed"} =>
    /\ last.reported = "error"
    /\ salesData = <<>>

\* C5: a failing sample load leaves the service running with the empty
\* record set: the step has the effect of a successful load of no records,
\* so every later operation starts from the state it would start from then.
C5_SampleFailureIsEmptyLoad ==
  [][ last'.op = "sampleFailed" =>
        /\ salesData' = <<>>
        /\ obs' = [i \in 1..Len(obs) |-> OnSalesData(obs[i], <<>>)]
        /\ pending' = pending \ { [id |-> 0, kind |-> "sample"] }
        /\ UNCHANGED <<filters, nextOp>>
    ]_vars

C5_Witness ==
  /\ last.op = "sampleFailed"
  /\ Len(obs) >= 1
  /\ nextOp >= 1
  /\ filters # InitialFilters


(***************************************************************************)
(* CsvImportService.  A text is a sequence of one-character strings.       *)
(***************************************************************************)
NewLine == "\n"
Comma == ","
Quote == "\""

\* The characters String.prototype.trim strips that occur in the inputs.
WhiteSpace == {" ", "\t", "\r", NewLine}

RECURSIVE TrimStart(_)
TrimStart(s) ==
  IF s # <<>> /\ Head(s) \in WhiteSpace THEN TrimStart(Tail(s)) ELSE s

RECURSIVE TrimEnd(_)
TrimEnd(s) ==
  IF s # <<>> /\ s[Len(s)] \in WhiteSpace THEN TrimEnd(SubSeq(s, 1, Len(s) - 1)) ELSE s

\* String.prototype.trim
Trim(s) == TrimEnd(TrimStart(s))

\* String.prototype.split(sep), sep one character: the pieces between the
\* occurrences of sep, always at least one piece.
Split(s, sep) ==
  LET at == SelectSeq([i \in 1..Len(s) |-> i], LAMBDA i : s[i] = sep)
      n == Len(at)
  IN  [k \in 1..(n + 1) |->
         SubSeq(s, IF k = 1 THEN 1 ELSE at[k - 1] + 1,
                   IF k = n + 1 THEN Len(s) ELSE at[k] - 1)]

\* Array.prototype.map
MapSeq(f(_), s) == [k \in 1..Len(s) |-> f(s[k])]

\* parseCsvLine: the scan of the line's characters from index i on.
RECURSIVE ScanLine(_, _, _, _, _)
ScanLine(line, i, result, current, inQuotes) ==
  IF i > Len(line) THEN Append(result, Trim(current))
  ELSE LET char == line[i]
       IN  IF char = Quote
             THEN ScanLine(line, i + 1, result, current, ~inQuotes)
           ELSE IF char = Comma /\ ~inQuotes
             THEN ScanLine(line, i + 1, Append(result, Trim(current)), <<>>, inQuotes)
           ELSE ScanLine(line, i + 1, result, Append(current, char), inQuotes)

\* A tokenizer that splits at every comma and keeps the quotes.
parseCsvLineNaive(line) == MapSeq(Trim, Split(line, Comma))

parseCsvLine(line) == ScanLine(line, 1, <<>>, <<>>, FALSE)

(***************************************************************************)
(* JavaScript values of a row's cells.  A property of the row object is a  *)
(* sequence of length 0 (undefined: no column of that name) or 1 (the      *)
(* column's token).                                                        *)
(***************************************************************************)
\* row[header] = values[index] for every column, then row.<name>: the last
\* column of that name wins.
RowGet(headers, values, name) ==
  LET cols == { k \in 1..Len(headers) : headers[k] = name }
  IN  IF cols = {} THEN <<>>
      ELSE << values[CHOOSE k \in cols : \A j \in cols : j <= k] >>

\* Truthiness of a string-or-undefined: neither undefined nor ''.
Truthy(cell) == cell # <<>> /\ cell[1] # <<>>

\* cell || dflt
OrElse(cell, dflt) == IF Truthy(cell) THEN cell[1] ELSE dflt

DigitChars == <<"0", "1", "2", "3", "4", "5", "6", "7", "8", "9">>
IsDigit(c) == \E d \in 1..Len(DigitChars) : DigitChars[d] = c
DigitValue(c) == (CHOOSE d \in 1..Len(DigitChars) : DigitChars[d] = c) - 1

\* The number of consecutive digits of s from index i on.
RECURSIVE DigitRun(_, _)
DigitRun(s, i) ==
  IF i <= Len(s) /\ IsDigit(s[i]) THEN 1 + DigitRun(s, i + 1) ELSE 0

\* The value of the n digits of s from index i on.
RECURSIVE DigitsValue(_, _, _)
DigitsValue(s, i, n) ==
  IF n = 0 THEN 0 ELSE DigitsValue(s, i, n - 1) * 10 + DigitValue(s[i + n - 1])

RECURSIVE Pow10(_)
Pow10(n) == IF n = 0 THEN 1 ELSE 10 * Pow10(n - 1)

\* Template literal `${i}`: the decimal digits of a non-negative integer.
RECURSIVE DecimalString(_)
DecimalString(n) ==
  IF n < 10 THEN << DigitChars[n + 1] >>
  ELSE Append(DecimalString(n \div 10), DigitChars[(n % 10) + 1])

(***************************************************************************)
(* Numbers.  A number is NaN or the decimal (-1)^neg * mant / 10^scale,    *)
(* kept without trailing fraction zeros so that equal numbers are equal    *)
(* values.                                                                 *)
(***************************************************************************)
NaN == [nan |-> TRUE, neg |-> FALSE, mant |-> 0, scale |-> 0]

RECURSIVE Decimal(_, _, _)
Decimal(neg, mant, scale) ==
  IF scale > 0 /\ mant % 10 = 0 THEN Decimal(neg, mant \div 10, scale - 1)
  ELSE [nan |-> FALSE, neg |-> neg, mant |-> mant, scale |-> scale]

Zero == Decimal(FALSE, 0, 0)
One == Decimal(FALSE, 1, 0)

\* parseFloat and parseInt read the longest prefix that is a number: an
\* optional sign, digits and, for parseFloat, a fraction.  (The exponent
\* part, Infinity and the 0x prefix do not occur in the inputs.)
ParseFloat(cell) ==
  IF cell = <<>> THEN NaN
  ELSE LET s       == TrimStart(cell[1])
           hasSign == s # <<>> /\ s[1] \in {"+", "-"}
           p       == IF hasSign THEN 2 ELSE 1
           ni      == DigitRun(s, p)
           hasDot  == p + ni <= Len(s) /\ s[p + ni] = "."
           nf      == IF hasDot THEN DigitRun(s, p + ni + 1) ELSE 0
       IN  IF ni + nf = 0 THEN NaN
           ELSE Decimal(hasSign /\ s[1] = "-",
                        DigitsValue(s, p, ni) * Pow10(nf) + DigitsValue(s, p + ni + 1, nf),
                        nf)

ParseInt(cell) ==
  IF cell = <<>> THEN NaN
  ELSE LET s       == TrimStart(cell[1])
           hasSign == s # <<>> /\ s[1] \in {"+", "-"}
           p       == IF hasSign THEN 2 ELSE 1
           ni      == DigitRun(s, p)
       IN  IF ni = 0 THEN NaN
           ELSE Decimal(hasSign /\ s[1] = "-", DigitsValue(s, p, ni), 0)

\* n || dflt: NaN, 0 and -0 are falsy.
NumberOrElse(n, dflt) == IF n.nan \/ n.mant = 0 THEN dflt ELSE n

\* n >= 0
NonNegative(n) == ~n.nan /\ (~n.neg \/ n.mant = 0)

(***************************************************************************)
(* moment(cell).  moment(undefined) is the current time; '' is invalid; a  *)
(* string of the ISO form YYYY-MM-DD is that day when the day exists and   *)
(* invalid otherwise; a string without digits is no date.  (Other strings  *)
(* go to the engine's Date parser and do not occur in the date column of   *)
(* the inputs.)  at is <<year, month, day>>, CurrentTime for "now".        *)
(***************************************************************************)
CurrentTime == <<0, 0, 0>>

DaysInMonth(y, m) ==
  IF m \in {4, 6, 9, 11} THEN 30
  ELSE IF m = 2 THEN (IF (y % 4 = 0 /\ y % 100 # 0) \/ y % 400 = 0 THEN 29 ELSE 28)
  ELSE 31

IsIsoDate(s) ==
  /\ Len(s) = 10
  /\ \A k \in {1, 2, 3, 4, 6, 7, 9, 10} : IsDigit(s[k])
  /\ s[5] = "-" /\ s[8] = "-"

Moment(cell) ==
  IF cell = <<>> THEN [valid |-> TRUE, at |-> CurrentTime]
  ELSE LET s == cell[1]
       IN  IF IsIsoDate(s)
           THEN LET y == DigitsValue(s, 1, 4)
                    m == DigitsValue(s, 6, 2)
                    d == DigitsValue(s, 9, 2)
                IN  [valid |-> m \in 1..12 /\ d >= 1 /\ d <= DaysInMonth(y, m),
                     at |-> <<y, m, d>>]
           ELSE [valid |-> FALSE, at |-> CurrentTime]

(***************************************************************************)
(* parseCsvToSalesData.                                                    *)
(***************************************************************************)
F_id         == <<"i", "d">>
F_date       == <<"d", "a", "t", "e">>
F_revenue    == <<"r", "e", "v", "e", "n", "u", "e">>
F_orders     == <<"o", "r", "d", "e", "r", "s">>
F_customerId == <<"c", "u", "s", "t", "o", "m", "e", "r", "I", "d">>
F_productId  == <<"p", "r", "o", "d", "u", "c", "t", "I", "d">>
F_productName == <<"p", "r", "o", "d", "u", "c", "t", "N", "a", "m", "e">>
F_category   == <<"c", "a", "t", "e", "g", "o", "r", "y">>
F_region     == <<"r", "e", "g", "i", "o", "n">>

OrderPrefix    == <<"o", "r", "d", "e", "r", "_">>
CustomerPrefix == <<"c", "u", "s", "t", "o", "m", "e", "r", "_">>
ProductPrefix  == <<"p", "r", "o", "d", "u", "c", "t", "_">>
Unknown        == <<"U", "n", "k", "n", "o", "w", "n">>

\* The salesItem built from the tokens of lines[i] (i counts from 0, the
\* header being lines[0]).
BuildSalesItem(headers, values, i) ==
  LET row(name) == RowGet(headers, values, name)
  IN  [id         |-> OrElse(row(F_id), OrderPrefix \o DecimalString(i)),
       date       |-> Moment(row(F_date)),
       revenue    |-> NumberOrElse(ParseFloat(row(F_revenue)), Zero),
       orders     |-> NumberOrElse(ParseInt(row(F_orders)), One),
       customerId |-> OrElse(row(F_customerId), CustomerPrefix \o DecimalString(i)),
       productId  |-> OrElse(row(F_productId), ProductPrefix \o DecimalString(i)),
       category   |-> OrElse(row(F_category), Unknown),
       region     |-> OrElse(row(F_region), Unknown)]

\* A validation that forgets the revenue's sign.
isValidSalesDataAnyRevenue(data) ==
  /\ data.id # <<>>
  /\ data.date.valid
  /\ data.customerId # <<>>
  /\ data.productId # <<>>
  /\ data.category # <<>>
  /\ data.region # <<>>

isValidSalesData(data) ==
  /\ data.id # <<>>
  /\ data.date.valid
  /\ NonNegative(data.revenue)
  /\ data.customerId # <<>>
  /\ data.productId # <<>>
  /\ data.category # <<>>
  /\ data.region # <<>>

\* A column check that only notices missing columns.
ColumnCountTooSmall(values, headers) == Len(values) < Len(headers)

\* values.length !== headers.length
ColumnCountMismatch(values, headers) == Len(values) # Len(headers)

\* console.warn: the kind of warning and the line number it prints (i + 1).
Warning(kind, i) == [kind |-> kind, line |-> i + 1]

\* The loop over lines[i], i = 1 .. lines.length - 1 (lines[i] is lines[i + 1]
\* here: sequences start at 1).
RECURSIVE ParseLoop(_, _, _, _, _)
ParseLoop(lines, headers, i, data, warnings) ==
  IF i >= Len(lines) THEN [threw |-> FALSE, data |-> data, warnings |-> warnings]
  ELSE LET values == parseCsvLine(lines[i + 1])
       IN  IF ColumnCountMismatch(values, headers)
             THEN ParseLoop(lines, headers, i + 1, data,
                            Append(warnings, Warning("Column count mismatch", i)))
           ELSE LET salesItem == BuildSalesItem(headers, values, i)
                IN  IF isValidSalesData(salesItem)
                      THEN ParseLoop(lines, headers, i + 1, Append(data, salesItem), warnings)
                    ELSE ParseLoop(lines, headers, i + 1, data,
                                   Append(warnings, Warning("Skipping invalid data", i)))

\* A line filter that drops only the empty lines.
NonEmptyLines(csvTextArg) ==
  SelectSeq(Split(csvTextArg, NewLine), LAMBDA line : line # <<>>)

NonBlankLines(csvTextArg) ==
  SelectSeq(Split(csvTextArg, NewLine), LAMBDA line : Trim(line) # <<>>)

\* lines[0].split(',') throws a TypeError when there is no line at all.
parseCsvToSalesData(csvTextArg) ==
  LET lines == NonBlankLines(csvTextArg)
  IN  IF lines = <<>> THEN [threw |-> TRUE, data |-> <<>>, warnings |-> <<>>]
      ELSE ParseLoop(lines, MapSeq(Trim, Split(lines[1], Comma)), 1, <<>>, <<>>)


(***************************************************************************)
(* The CSV texts drawn as inputs: a header, then up to MaxLeading filler    *)
(* lines, at most one row whose cells range over every kind of token of    *)
(* its column, and at most one filler line after it; and the texts that    *)
(* hold no header at all.                                                  *)
(***************************************************************************)
RECURSIVE JoinWith(_, _)
JoinWith(pieces, sep) ==
  IF pieces = <<>> THEN <<>>
  ELSE IF Len(pieces) = 1 THEN pieces[1]
  ELSE pieces[1] \o <<sep>> \o JoinWith(Tail(pieces), sep)

IsoDay      == <<"2", "0", "2", "5", "-", "1", "0", "-", "0", "5">>
NoSuchDay   == <<"2", "0", "2", "5", "-", "0", "2", "-", "3", "0">>
NotADate    == <<"n", "o", "t", "-", "a", "-", "d", "a", "t", "e">>
Word        == <<"a", "b", "c">>

DateTokens    == { <<>>, IsoDay, NoSuchDay, NotADate }
RevenueTokens == { <<>>, <<"5">>, <<"0">>, <<"-", "1">>, <<"2", ".", "5">>, Word }
OrdersTokens  == { <<>>, <<"3">>, <<"0">>, <<"-", "5">>, <<"2", ".", "7">>, Word }
TextTokens    == { <<>>, <<"N", "1">> }

TokensFor(name) ==
  IF name = F_date THEN DateTokens
  ELSE IF name = F_revenue THEN RevenueTokens
  ELSE IF name = F_orders THEN OrdersTokens
  ELSE TextTokens

HeaderCore   == <<F_id, F_date, F_revenue, F_orders>>
HeaderText   == <<F_date, F_customerId, F_productId, F_category, F_region>>
HeaderNoDate == <<F_id, F_revenue>>
HeaderFull   == <<F_id, F_date, F_revenue, F_orders, F_customerId, F_productId,
                  F_productName, F_category, F_region>>
Headers == {HeaderCore, HeaderText, HeaderNoDate, HeaderFull}

\* Every row of tokens for the columns cols.
RECURSIVE TokenRows(_)
TokenRows(cols) ==
  IF cols = <<>> THEN { <<>> }
  ELSE { <<t>> \o rest : t \in TokensFor(Head(cols)), rest \in TokenRows(Tail(cols)) }

\* Rows of the full header: a complete row, the row that supplies only its
\* date, and a row with quoted cells that hold commas.
FullRows ==
  { JoinWith(<< <<"i", "d", "1">>, IsoDay, <<"1", "0", ".", "5">>, <<"2">>, <<"c", "1">>,
               <<"p", "1">>, <<"N", "a", "m", "e">>, <<"C", "a", "t">>, <<"R", "e", "g">> >>, Comma),
    JoinWith(<< <<>>, IsoDay, <<>>, <<>>, <<>>, <<>>, <<>>, <<>>, <<>> >>, Comma),
    JoinWith(<< <<"i", "d", "2">>, IsoDay, <<"9", "9">>, <<"1">>, <<"c", "2">>, <<"p", "2">>,
               <<Quote, "A", Comma, " ", "I", Quote>>, <<"E", "l">>,
               <<Quote, "N", Comma, " ", "A", Quote>> >>, Comma) }

RowsFor(h) ==
  IF h = HeaderFull THEN FullRows
  ELSE { JoinWith(r, Comma) : r \in TokenRows(h) }

\* A row every column of which holds a usable token.
GoodRow(h) ==
  JoinWith([k \in 1..Len(h) |->
              IF h[k] = F_date THEN IsoDay
              ELSE IF h[k] \in {F_revenue, F_orders} THEN <<"7">>
              ELSE <<"g", DigitChars[k + 1]>>], Comma)

\* Filler lines: empty, blank, one column short of any header, one column
\* too long, and well-formed.
Fillers(h) ==
  { <<>>, <<" ", "\t">>, <<"x">>, GoodRow(h) \o <<Comma, "x">>, GoodRow(h) }

HeaderlessTexts ==
  { <<>>, <<NewLine>>, <<" ">>, <<" ", NewLine, "\t", NewLine>> }

InputsWith(h) ==
  { JoinWith(<<JoinWith(h, Comma)>> \o pre \o mid \o post, NewLine) :
      pre \in SeqsUpTo(Fillers(h), MaxLeading),
      mid \in { <<>> } \cup { <<r>> : r \in RowsFor(h) },
      post \in SeqsUpTo(Fillers(h), 1) }

CsvInputs == HeaderlessTexts \cup UNION { InputsWith(h) : h \in Headers }

ParseInit ==
  /\ csvText \in CsvInputs
  /\ parsed = NotParsed
  /\ pPc = "start"

ParseCsv ==
  /\ pPc = "start"
  /\ parsed' = parseCsvToSalesData(csvText)
  /\ pPc' = "done"
  /\ UNCHANGED <<csvText, svcVars, filterVars, functionVars>>

InitParse == ParseInit /\ SvcIdle /\ FilterIdle /\ FunctionsIdle

SpecParse == InitParse /\ [][ParseCsv]_vars


(***************************************************************************)
(* Claims about the parser.  The header's names and the tokens of the data *)
(* lines are read off the input text; data line i is lines[i] of the code  *)
(* (the header is lines[0]), so i counts the non-blank lines after the     *)
(* header, dropped ones included.                                          *)
(***************************************************************************)
ParseDone == pPc = "done" /\ ~parsed.threw

SourceView ==
  LET lines == NonBlankLines(csvText)
  IN  [headers |-> MapSeq(Trim, Split(lines[1], Comma)),
       toks    |-> [i \in 1..(Len(lines) - 1) |-> parseCsvLine(lines[i + 1])]]

DataLines(v) == 1..Len(v.toks)
CellOf(v, i, name) == RowGet(v.headers, v.toks[i], name)
ColumnsMatch(v, i) == Len(v.toks[i]) = Len(v.headers)
ItemOf(v, i) == BuildSalesItem(v.headers, v.toks[i], i)

Warned(kind, i) ==
  \E w \in 1..Len(parsed.warnings) : parsed.warnings[w] = [kind |-> kind, line |-> i + 1]

\* Data line i produced a record: no warning names it.
Kept(i) == \A w \in 1..Len(parsed.warnings) : parsed.warnings[w].line # i + 1

\* The record of a kept data line: records come in line order.
RecordOf(i) == parsed.data[Cardinality({ j \in 1..i : Kept(j) })]

\* The validity invariant of a record, as the data model states it.
ValidRecord(r) ==
  /\ r.id # <<>>
  /\ r.date.valid
  /\ ~r.revenue.nan /\ (r.revenue.mant = 0 \/ ~r.revenue.neg)
  /\ r.customerId # <<>> /\ r.productId # <<>>
  /\ r.category # <<>> /\ r.region # <<>>

\* C6: parseCsvToSalesData returns a sequence of records, without throwing,
\* for every input text.
C6_ParseIsTotal == pPc = "done" => ~parsed.threw

\* C7: every returned record satisfies the validity invariant, and a row
\* with the right column count whose record fails it is dropped with a
\* 'Skipping invalid data' warning and no 'Column count mismatch' warning.
C7_ReturnedRecordsAreValid ==
  ParseDone =>
    LET v == SourceView
    IN  /\ \A k \in 1..Len(parsed.data) : ValidRecord(parsed.data[k])
        /\ \A i \in DataLines(v) :
             (ColumnsMatch(v, i) /\ ~ValidRecord(ItemOf(v, i)))
               => /\ Warned("Skipping invalid data", i)
                  /\ ~Warned("Column count mismatch", i)
                  /\ ~Kept(i)

C7_Witness ==
  /\ ParseDone
  /\ Len(parsed.data) >= 1
  /\ LET v == SourceView
     IN  \E i \in DataLines(v) :
           /\ ColumnsMatch(v, i)
           /\ CellOf(v, i, F_date) = <<IsoDay>>
           /\ CellOf(v, i, F_revenue) = << <<"-", "1">> >>
           /\ ~ValidRecord(ItemOf(v, i))
           /\ Warned("Skipping invalid data", i)
           /\ ~Kept(i)

\* C8: every returned record's orders is an integer >= 1.
C8_OrdersAtLeastOne ==
  ParseDone =>
    \A k \in 1..Len(parsed.data) :
      LET n == parsed.data[k].orders
      IN  ~n.nan /\ n.scale = 0 /\ ~n.neg /\ n.mant >= 1

\* C9: a data line whose token count differs from the header's is skipped
\* with a 'Column count mismatch' warning, and the records returned are
\* those of the other lines that pass validation, each built from its own
\* line and index, in line order.
WellFormed(v, i) == ColumnsMatch(v, i) /\ ValidRecord(ItemOf(v, i))

AcceptedLines(v) ==
  SelectSeq([i \in DataLines(v) |-> i], LAMBDA i : WellFormed(v, i))

C9_MismatchSkipsOnlyThatLine ==
  ParseDone =>
    LET v == SourceView
        accepted == AcceptedLines(v)
    IN  /\ \A i \in DataLines(v) :
             ~ColumnsMatch(v, i) => Warned("Column count mismatch", i) /\ ~Kept(i)
        /\ parsed.data = [k \in 1..Len(accepted) |-> ItemOf(v, accepted[k])]

C9_Witness ==
  /\ ParseDone
  /\ LET v == SourceView
     IN  \E i, j \in DataLines(v) :
           /\ i < j
           /\ Len(v.toks[i]) > Len(v.headers)
           /\ Warned("Column count mismatch", i)
           /\ WellFormed(v, j) /\ Kept(j)
           /\ RecordOf(j) = ItemOf(v, j)

\* C10: defaulting.  For data line i with the right column count: a blank
\* or absent id, customerId, productId, category or region takes its
\* default ('order_i', 'customer_i', 'product_i', 'Unknown'), a blank or
\* non-numeric revenue is 0 and a blank or non-numeric orders is 1, none of
\* which rejects the row; date has no default, so a row whose date is blank
\* or absent yields no record.
Missing(cell) == ~Truthy(cell)

\* The token starts with nothing a number can start with.
NonNumeric(cell) ==
  Truthy(cell) /\ ~IsDigit(cell[1][1]) /\ cell[1][1] \notin {"+", "-", "."}

TextDefaulted(cell, value, dflt) ==
  value = IF Missing(cell) THEN dflt ELSE cell[1]

\* The row's date is usable and its revenue is not a negative number:
\* nothing but defaulting stands between the row and a record.
OnlyDefaultsNeeded(v, i) ==
  /\ ColumnsMatch(v, i)
  /\ CellOf(v, i, F_date) = <<IsoDay>>
  /\ LET revenue == CellOf(v, i, F_revenue)
     IN  Missing(revenue) \/ NonNumeric(revenue) \/ IsDigit(revenue[1][1])

DefaultsApplied(v) ==
  \A i \in DataLines(v) :
    /\ OnlyDefaultsNeeded(v, i) => Kept(i)
    /\ (ColumnsMatch(v, i) /\ Kept(i)) =>
         LET r == RecordOf(i)
             n == DecimalString(i)
         IN  /\ TextDefaulted(CellOf(v, i, F_id), r.id, OrderPrefix \o n)
             /\ TextDefaulted(CellOf(v, i, F_customerId), r.customerId, CustomerPrefix \o n)
             /\ TextDefaulted(CellOf(v, i, F_productId), r.productId, ProductPrefix \o n)
             /\ TextDefaulted(CellOf(v, i, F_category), r.category, Unknown)
             /\ TextDefaulted(CellOf(v, i, F_region), r.region, Unknown)
             /\ (Missing(CellOf(v, i, F_revenue)) \/ NonNumeric(CellOf(v, i, F_revenue)))
                  => r.revenue = Zero
             /\ (Missing(CellOf(v, i, F_orders)) \/ NonNumeric(CellOf(v, i, F_orders)))
                  => r.orders = One

DateHasNoDefault(v) ==
  \A i \in DataLines(v) : Missing(CellOf(v, i, F_date)) => ~Kept(i)

C10_Defaulting ==
  ParseDone => LET v == SourceView IN DefaultsApplied(v) /\ DateHasNoDefault(v)

(***************************************************************************)
(* parseCsvLine as a function of one data line, and the records the parser *)
(* returns for the nine-column header followed by that line.               *)
(***************************************************************************)
MaxLineLen == 5

LineAlphabet == {Comma, Quote, " ", "a", "b"}

\* The row of the quoted-commas test, names shortened.
QuotedRow ==
  JoinWith(<< <<"i", "d", "2">>, IsoDay, <<"9", "9">>, <<"1">>, <<"c", "2">>, <<"p", "2">>,
             <<Quote, "A", Comma, " ", "I", Quote>>, <<"E", "l">>,
             <<Quote, "N", Comma, " ", "A", Quote>> >>, Comma)

\* The same row with the region's closing quote missing and with a region
\* quoted only in part.
QuotedRows ==
  { QuotedRow,
    SubSeq(QuotedRow, 1, Len(QuotedRow) - 1),
    SubSeq(QuotedRow, 1, Len(QuotedRow) - 6) \o <<"N", Quote, Comma, " ", Quote, "A">> }

TokenizerLines == SeqsUpTo(LineAlphabet, MaxLineLen) \cup QuotedRows

TokenizeInit ==
  /\ tLine \in TokenizerLines
  /\ tTokens = <<>>
  /\ tParsed = NotParsed
  /\ tPc = "start"

\* values = this.parseCsvLine(lines[i]), and the whole parse of the sample
\* header followed by the line.
TokenizeLine ==
  /\ tPc = "start"
  /\ tTokens' = parseCsvLine(tLine)
  /\ tParsed' = parseCsvToSalesData(JoinWith(<<JoinWith(HeaderFull, Comma), tLine>>, NewLine))
  /\ tPc' = "done"
  /\ UNCHANGED <<tLine, svcVars, filterVars, parseVars, aggVars, virtVars, compVars>>

InitTokenize ==
  TokenizeInit /\ SvcIdle /\ FilterIdle /\ ParseIdle /\ AggIdle /\ VirtIdle /\ CompIdle

SpecTokenize == InitTokenize /\ [][TokenizeLine]_vars

(***************************************************************************)
(* Claims about the tokenizer.  The tokenization the claim describes is    *)
(* stated without a scan: a position is outside quotes when an even number *)
(* of quotes precedes it.                                                  *)
(***************************************************************************)
QuotesBefore(line, i) == Cardinality({ j \in 1..(i - 1) : line[j] = Quote })

OutsideQuotes(line, i) == QuotesBefore(line, i) % 2 = 0

\* The positions of the separating commas, in increasing order.
Separators(line) ==
  SelectSeq([i \in 1..Len(line) |-> i],
            LAMBDA i : line[i] = Comma /\ OutsideQuotes(line, i))

NotQuote(c) == c # Quote

\* Token k: the characters between separator k - 1 and separator k, quotes
\* removed, trimmed.
QuoteAwareTokens(line) ==
  LET seps == Separators(line)
      from(k) == IF k = 1 THEN 1 ELSE seps[k - 1] + 1
      to(k) == IF k = Len(seps) + 1 THEN Len(line) ELSE seps[k] - 1
  IN  [k \in 1..(Len(seps) + 1) |->
         Trim(SelectSeq(SubSeq(line, from(k), to(k)), NotQuote))]

\* C11: the tokens of a line are the pieces between its commas outside
\* quotes, quotes removed, each trimmed, so there are 1 + (commas outside
\* quotes) of them; and a nine-token row whose quoted region holds a comma
\* yields exactly one record, whose region is that text with the comma.
C11_QuoteAwareTokenization ==
  tPc = "done" =>
    /\ tTokens = QuoteAwareTokens(tLine)
    /\ Len(tTokens) =
         1 + Cardinality({ i \in 1..Len(tLine) : tLine[i] = Comma /\ OutsideQuotes(tLine, i) })
    /\ \A k \in 1..Len(tTokens) :
         /\ \A j \in 1..Len(tTokens[k]) : tTokens[k][j] # Quote
         /\ tTokens[k] = Trim(tTokens[k])
    /\ tLine = QuotedRow =>
         /\ ~tParsed.threw
         /\ Len(tParsed.data) = 1
         /\ tParsed.data[1].region = <<"N", Comma, " ", "A">>
         /\ tParsed.warnings = <<>>

C11_Witness ==
  /\ tPc = "done"
  /\ tLine = QuotedRow
  /\ Len(tTokens) = 9
  /\ tTokens[7] = <<"A", Comma, " ", "I">>
  /\ Len(tParsed.data) = 1
  /\ tParsed.data[1].region = <<"N", Comma, " ", "A">>

(***************************************************************************)
(* Claims about the parser's output order, stated on the physical lines of *)
(* the text (blank ones included).                                         *)
(***************************************************************************)
IsBlank(line) == \A j \in 1..Len(line) : line[j] \in WhiteSpace

\* C12: the records are those of the accepted data lines, one each, in the
\* order of their source lines; every warning belongs to a dropped
\* non-blank line; and blank or whitespace-only lines leave no trace: the
\* result is that of the text without them.
C12_OutputKeepsLineOrder ==
  ParseDone =>
    LET phys == Split(csvText, NewLine)
        nb == SelectSeq([p \in 1..Len(phys) |-> p], LAMBDA p : ~IsBlank(phys[p]))
    IN  /\ nb # <<>>
        /\ LET v == [headers |-> MapSeq(Trim, Split(phys[nb[1]], Comma)),
                     toks    |-> [i \in 1..(Len(nb) - 1) |-> parseCsvLine(phys[nb[i + 1]])]]
               accepted == AcceptedLines(v)
           IN  /\ Len(parsed.data) = Len(accepted)
               /\ \A k \in 1..Len(accepted) : parsed.data[k] = ItemOf(v, accepted[k])
               /\ \A k, l \in 1..Len(accepted) :
                    k < l => nb[accepted[k] + 1] < nb[accepted[l] + 1]
               /\ Len(parsed.warnings) = (Len(nb) - 1) - Len(accepted)
               /\ \A w \in 1..Len(parsed.warnings) :
                    /\ parsed.warnings[w].line \in 2..Len(nb)
                    /\ ~WellFormed(v, parsed.warnings[w].line - 1)
               /\ parsed = parseCsvToSalesData(JoinWith([k \in 1..Len(nb) |-> phys[nb[k]]], NewLine))

\* A whitespace-only line precedes two accepted lines that give different
\* records.
C12_Witness ==
  /\ ParseDone
  /\ LET phys == Split(csvText, NewLine)
     IN  /\ Len(phys) = 4
         /\ phys[2] = <<" ", "\t">>
  /\ Len(parsed.data) = 2
  /\ parsed.data[1] # parsed.data[2]
  /\ parsed.warnings = <<>>

(***************************************************************************)
(* The rollups of AnalyticsDataService as functions of a filtered record   *)
(* set.  Strings that the code inspects (productId, productName) are       *)
(* sequences of characters; an optional property is a sequence of length 0 *)
(* (undefined) or 1.  Revenues are integers, so sums are exact; a quotient *)
(* is the fraction in lowest terms.  A date is a local calendar time       *)
(* [y, m, d, h]; its valueOf is counted in hours from EpochYear-01-01      *)
(* 00:00, a Sunday, at a fixed UTC offset.                                 *)
(***************************************************************************)
MaxAggRecords == 3

EpochYear == 2023

RECURSIVE Gcd(_, _)
Gcd(a, b) == IF b = 0 THEN a ELSE Gcd(b, a % b)

\* a / b for integers a >= 0, b > 0.
Quotient(a, b) == [num |-> a \div Gcd(a, b), den |-> b \div Gcd(a, b)]

\* The number literal n.
Whole(n) == [num |-> n, den |-> 1]

\* Array.prototype.reduce((sum, item) => sum + item.revenue, 0)
RECURSIVE SumRevenue(_)
SumRevenue(data) ==
  IF data = <<>> THEN 0
  ELSE SumRevenue(SubSeq(data, 1, Len(data) - 1)) + data[Len(data)].revenue

\* A dashboard whose order total adds up the records' orders fields.
calculateDashboardMetricsSummingOrders(data) ==
  LET RECURSIVE SumOrders(_)
      SumOrders(d) == IF d = <<>> THEN 0 ELSE d[1].orders + SumOrders(Tail(d))
      totalRevenue == SumRevenue(data)
      totalOrders == SumOrders(data)
  IN  [totalRevenue      |-> totalRevenue,
       totalOrders       |-> totalOrders,
       averageOrderValue |-> IF totalOrders > 0 THEN Quotient(totalRevenue, totalOrders)
                             ELSE Whole(0),
       customerCount     |-> Cardinality({ data[k].customerId : k \in 1..Len(data) }),
       conversionRate    |-> Quotient(45, 1000),
       periodComparison  |-> [revenue |-> Quotient(12, 100), orders |-> Quotient(8, 100),
                              customers |-> Quotient(15, 100)]]

calculateDashboardMetrics(data) ==
  LET totalRevenue == SumRevenue(data)
      totalOrders == Len(data)
      uniqueCustomers == Cardinality({ data[k].customerId : k \in 1..Len(data) })
  IN  [totalRevenue      |-> totalRevenue,
       totalOrders       |-> totalOrders,
       averageOrderValue |-> IF totalOrders > 0 THEN Quotient(totalRevenue, totalOrders)
                             ELSE Whole(0),
       customerCount     |-> uniqueCustomers,
       conversionRate    |-> Quotient(45, 1000),
       periodComparison  |-> [revenue |-> Quotient(12, 100), orders |-> Quotient(8, 100),
                              customers |-> Quotient(15, 100)]]

\* A Map is the sequence of its entries in insertion order; the index of
\* the entry of a key, 0 when the Map has none.
MapIndex(entries, key(_), k) ==
  IF \E n \in 1..Len(entries) : key(entries[n]) = k
    THEN CHOOSE n \in 1..Len(entries) : key(entries[n]) = k
  ELSE 0

\* The value Math.random() returned on its n-th call of this rollup.
RandomDraw(n) == [draw |-> n]

ProductSpace == <<"P", "r", "o", "d", "u", "c", "t", " ">>

\* String.prototype.startsWith
StartsWith(str, prefix) ==
  Len(str) >= Len(prefix) /\ SubSeq(str, 1, Len(prefix)) = prefix

ProductKey(entry) == entry.productId

\* The body of calculateProductMetrics' forEach for one record.
ProductStep(productMap, item) ==
  LET created ==
        IF MapIndex(productMap, ProductKey, item.productId) = 0
          THEN Append(productMap,
                      [productId         |-> item.productId,
                       name              |-> ProductSpace \o item.productId,
                       category          |-> item.category,
                       totalRevenue      |-> 0,
                       totalOrders       |-> 0,
                       averageOrderValue |-> Whole(0),
                       conversionRate    |-> RandomDraw(Len(productMap) + 1)])
        ELSE productMap
      n == MapIndex(created, ProductKey, item.productId)
      product == created[n]
      totalRevenue == product.totalRevenue + item.revenue
      totalOrders == product.totalOrders + 1
  IN  [created EXCEPT ![n] =
         [product EXCEPT
            !.totalRevenue = totalRevenue,
            !.totalOrders = totalOrders,
            !.averageOrderValue = Quotient(totalRevenue, totalOrders),
            !.name = IF Truthy(item.productName) /\ StartsWith(product.name, ProductSpace)
                       THEN item.productName[1]
                     ELSE product.name]]

RECURSIVE ProductLoop(_, _)
ProductLoop(productMap, data) ==
  IF data = <<>> THEN productMap
  ELSE ProductLoop(ProductStep(productMap, Head(data)), Tail(data))

\* A rollup that never merges: one entry per record.
calculateProductMetricsPerRecord(data) ==
  [k \in 1..Len(data) |-> ProductStep(<<>>, data[k])[1]]

calculateProductMetrics(data) == ProductLoop(<<>>, data)

RegionKey(entry) == entry.region

\* The body of calculateRegionalPerformance's forEach for one record.
RegionStep(regionMap, item) ==
  LET created ==
        IF MapIndex(regionMap, RegionKey, item.region) = 0
          THEN Append(regionMap,
                      [region     |-> item.region,
                       revenue    |-> 0,
                       orders     |-> 0,
                       customers  |-> {},
                       growthRate |-> RandomDraw(Len(regionMap) + 1)])
        ELSE regionMap
      n == MapIndex(created, RegionKey, item.region)
      region == created[n]
  IN  [created EXCEPT ![n] =
         [region EXCEPT
            !.revenue = region.revenue + item.revenue,
            !.orders = region.orders + 1,
            !.customers = region.customers \cup {item.customerId}]]

RECURSIVE RegionLoop(_, _)
RegionLoop(regionMap, data) ==
  IF data = <<>> THEN regionMap
  ELSE RegionLoop(RegionStep(regionMap, Head(data)), Tail(data))

\* A rollup that counts a customer once per record.
calculateRegionalPerformancePerRecord(data) ==
  LET regionMap == RegionLoop(<<>>, data)
  IN  [n \in 1..Len(regionMap) |->
         [regionMap[n] EXCEPT !.customers = regionMap[n].orders]]

calculateRegionalPerformance(data) ==
  LET regionMap == RegionLoop(<<>>, data)
  IN  [n \in 1..Len(regionMap) |->
         [regionMap[n] EXCEPT !.customers = Cardinality(regionMap[n].customers)]]

(***************************************************************************)
(* Calendar arithmetic of moment: format, parse, startOf('week'), valueOf. *)
(***************************************************************************)
DaysInYear(y) == IF DaysInMonth(y, 2) = 29 THEN 366 ELSE 365

RECURSIVE DaysBeforeYear(_)
DaysBeforeYear(y) ==
  IF y <= EpochYear THEN 0 ELSE DaysBeforeYear(y - 1) + DaysInYear(y - 1)

RECURSIVE DaysBeforeMonth(_, _)
DaysBeforeMonth(y, m) ==
  IF m <= 1 THEN 0 ELSE DaysBeforeMonth(y, m - 1) + DaysInMonth(y, m - 1)

\* Days from EpochYear-01-01 to y-m-d.
DayNumber(y, m, d) == DaysBeforeYear(y) + DaysBeforeMonth(y, m) + (d - 1)

\* The calendar day that is n days after y-m-01.
RECURSIVE DayFrom(_, _, _)
DayFrom(y, m, n) ==
  IF n >= DaysInMonth(y, m)
    THEN IF m = 12 THEN DayFrom(y + 1, 1, n - DaysInMonth(y, m))
         ELSE DayFrom(y, m + 1, n - DaysInMonth(y, m))
  ELSE [y |-> y, m |-> m, d |-> n + 1, h |-> 0]

\* moment.valueOf, in hours.
ValueOf(date) == DayNumber(date.y, date.m, date.d) * 24 + date.h

\* date.clone().startOf('week'): the Sunday on or before the date, 00:00.
StartOfWeek(date) ==
  LET n == DayNumber(date.y, date.m, date.d)
  IN  DayFrom(EpochYear, 1, n - (n % 7))

\* A number in exactly w digits, as the tokens YYYY, MM, DD and HH print it.
RECURSIVE Padded(_, _)
Padded(n, w) ==
  IF w = 0 THEN <<>> ELSE Append(Padded(n \div 10, w - 1), DigitChars[(n % 10) + 1])

FormatMonth(date) == Padded(date.y, 4) \o <<"-">> \o Padded(date.m, 2)
FormatDay(date) == FormatMonth(date) \o <<"-">> \o Padded(date.d, 2)
FormatHour(date) == FormatDay(date) \o <<" ">> \o Padded(date.h, 2)

getTimeKey(date, granularity) ==
  CASE granularity = "hour"  -> FormatHour(date)
    [] granularity = "day"   -> FormatDay(date)
    [] granularity = "week"  -> FormatDay(StartOfWeek(date))
    [] granularity = "month" -> FormatMonth(date)
    [] OTHER                 -> FormatDay(date)

\* moment(timeKey) for the ISO 8601 forms YYYY-MM, YYYY-MM-DD and
\* YYYY-MM-DD HH; any other text is an invalid moment.
MomentOfKey(timeKey) ==
  LET digitsAt(P) == \A k \in P : IsDigit(timeKey[k])
      month == Len(timeKey) >= 7 /\ digitsAt({1, 2, 3, 4, 6, 7}) /\ timeKey[5] = "-"
      day == month /\ Len(timeKey) >= 10 /\ digitsAt({9, 10}) /\ timeKey[8] = "-"
      hour == day /\ Len(timeKey) = 13 /\ digitsAt({12, 13}) /\ timeKey[11] = " "
      known == (month /\ Len(timeKey) = 7) \/ (day /\ Len(timeKey) = 10) \/ hour
  IN  IF ~known THEN [valid |-> FALSE, y |-> 0, m |-> 0, d |-> 0, h |-> 0]
      ELSE LET y == DigitsValue(timeKey, 1, 4)
               m == DigitsValue(timeKey, 6, 2)
               d == IF Len(timeKey) >= 10 THEN DigitsValue(timeKey, 9, 2) ELSE 1
               h == IF Len(timeKey) = 13 THEN DigitsValue(timeKey, 12, 2) ELSE 0
           IN  [valid |-> m \in 1..12 /\ d >= 1 /\ d <= DaysInMonth(y, m) /\ h <= 23,
                y |-> y, m |-> m, d |-> d, h |-> h]

TimeKeyOf(entry) == entry.timeKey

\* A bucket whose non-revenue value adds up the records' orders fields.
TimeStepAddingOrders(timeMap, item, metric, granularity) ==
  LET timeKey == getTimeKey(item.date, granularity)
      created ==
        IF MapIndex(timeMap, TimeKeyOf, timeKey) = 0
          THEN Append(timeMap, [timeKey |-> timeKey, value |-> 0, count |-> 0])
        ELSE timeMap
      n == MapIndex(created, TimeKeyOf, timeKey)
      entry == created[n]
  IN  [created EXCEPT ![n] =
         [entry EXCEPT
            !.value = entry.value + (IF metric = "revenue" THEN item.revenue ELSE item.orders),
            !.count = entry.count + 1]]

\* The body of aggregateTimeSeriesData's forEach for one record.
TimeStep(timeMap, item, metric, granularity) ==
  LET timeKey == getTimeKey(item.date, granularity)
      created ==
        IF MapIndex(timeMap, TimeKeyOf, timeKey) = 0
          THEN Append(timeMap, [timeKey |-> timeKey, value |-> 0, count |-> 0])
        ELSE timeMap
      n == MapIndex(created, TimeKeyOf, timeKey)
      entry == created[n]
  IN  [created EXCEPT ![n] =
         [entry EXCEPT
            !.value = entry.value + (IF metric = "revenue" THEN item.revenue ELSE 1),
            !.count = entry.count + 1]]

RECURSIVE TimeLoop(_, _, _, _)
TimeLoop(timeMap, data, metric, granularity) ==
  IF data = <<>> THEN timeMap
  ELSE TimeLoop(TimeStep(timeMap, Head(data), metric, granularity), Tail(data),
                metric, granularity)

\* Array.from(timeMap.entries()).map(([timeKey, data]) => ...)
TimeSeriesPoints(data, metric, granularity) ==
  LET timeMap == TimeLoop(<<>>, data, metric, granularity)
  IN  [n \in 1..Len(timeMap) |->
         [timestamp |-> MomentOfKey(timeMap[n].timeKey), value |-> timeMap[n].value]]

\* Array.prototype.sort with (a, b) => a.timestamp.valueOf() -
\* b.timestamp.valueOf(): a stable sort, here by insertion.
RECURSIVE InsertPoint(_, _)
InsertPoint(sorted, point) ==
  IF sorted = <<>> THEN <<point>>
  ELSE IF ValueOf(sorted[Len(sorted)].timestamp) - ValueOf(point.timestamp) > 0
    THEN Append(InsertPoint(SubSeq(sorted, 1, Len(sorted) - 1), point), sorted[Len(sorted)])
  ELSE Append(sorted, point)

RECURSIVE SortPoints(_)
SortPoints(points) ==
  IF Len(points) = 0 THEN <<>>
  ELSE InsertPoint(SortPoints(SubSeq(points, 1, Len(points) - 1)), points[Len(points)])

\* A series left in the order its buckets were created.
aggregateTimeSeriesDataUnsorted(data, metric, granularity) ==
  TimeSeriesPoints(data, metric, granularity)

aggregateTimeSeriesData(data, metric, granularity) ==
  SortPoints(TimeSeriesPoints(data, metric, granularity))

(***************************************************************************)
(* Inputs of the rollups: records of two products, two regions and two     *)
(* customers whose names, categories and dates differ within a product.    *)
(* The dates cover two hours of one day, two days of one week, the next    *)
(* week, the next month, and the Sunday and Monday around a new year.      *)
(***************************************************************************)
At(y, m, d, h) == [y |-> y, m |-> m, d |-> d, h |-> h]

P1 == <<"p", "1">>
P2 == <<"p", "2">>
NoName == <<>>
EmptyName == << <<>> >>
WidgetA == << <<"W", "i", "d", "g", "e", "t", " ", "A">> >>
GadgetB == << <<"G", "a", "d", "g", "e", "t", " ", "B">> >>
ProductPlus == << ProductSpace \o <<"P", "l", "u", "s">> >>

AggPool ==
  { SalesItem("o1", At(2024, 1, 15, 10), 100, 2, "c1", P1, NoName,      "Electronics", "North"),
    SalesItem("o2", At(2024, 1, 15, 11), 250, 3, "c1", P1, WidgetA,     "Home",        "South"),
    SalesItem("o3", At(2024, 1, 16, 10), 50,  1, "c2", P1, ProductPlus, "Electronics", "North"),
    SalesItem("o4", At(2024, 1, 21, 10), 0,   5, "c1", P1, GadgetB,     "Home",        "North"),
    SalesItem("o5", At(2024, 2, 1, 0),   100, 2, "c2", P2, EmptyName,   "Home",        "South"),
    SalesItem("o6", At(2023, 12, 31, 23), 75, 4, "c2", P2, GadgetB,     "Electronics", "South"),
    SalesItem("o7", At(2024, 1, 1, 0),   250, 1, "c1", P2, ProductPlus, "Home",        "North"),
    SalesItem("o8", At(2024, 1, 15, 10), 30,  2, "c2", P2, NoName,      "Electronics", "North") }

Metrics == {"revenue", "orders"}
Granularities == {"hour", "day", "week", "month"}

AggInit ==
  /\ aData \in SeqsUpTo(AggPool, MaxAggRecords)
  /\ aMetric = "none"
  /\ aGranularity = "none"
  /\ aOut = <<>>
  /\ aPc = "start"

AggFrame ==
  UNCHANGED <<aData, svcVars, filterVars, parseVars, tokVars, virtVars, compVars>>

\* dashboardMetrics$ = filteredSalesData$.pipe(map(calculateDashboardMetrics))
dashboardMetrics ==
  /\ aPc = "start"
  /\ aOut' = calculateDashboardMetrics(aData)
  /\ aPc' = "dashboardMetrics"
  /\ UNCHANGED <<aMetric, aGranularity>>
  /\ AggFrame

\* productMetrics$ = filteredSalesData$.pipe(map(calculateProductMetrics))
productMetrics ==
  /\ aPc = "start"
  /\ aOut' = calculateProductMetrics(aData)
  /\ aPc' = "productMetrics"
  /\ UNCHANGED <<aMetric, aGranularity>>
  /\ AggFrame

\* regionalPerformance$ = filteredSalesData$.pipe(map(calculateRegionalPerformance))
regionalPerformance ==
  /\ aPc = "start"
  /\ aOut' = calculateRegionalPerformance(aData)
  /\ aPc' = "regionalPerformance"
  /\ UNCHANGED <<aMetric, aGranularity>>
  /\ AggFrame

getTimeSeriesData(metric, granularity) ==
  /\ aPc = "start"
  /\ aOut' = aggregateTimeSeriesData(aData, metric, granularity)
  /\ aMetric' = metric
  /\ aGranularity' = granularity
  /\ aPc' = "getTimeSeriesData"
  /\ AggFrame

NextAggregate ==
  \/ dashboardMetrics
  \/ productMetrics
  \/ regionalPerformance
  \/ \E metric \in Metrics, granularity \in Granularities :
       getTimeSeriesData(metric, granularity)

InitAggregate ==
  AggInit /\ SvcIdle /\ FilterIdle /\ ParseIdle /\ TokIdle /\ VirtIdle /\ CompIdle

SpecAggregate == InitAggregate /\ [][NextAggregate]_vars

(***************************************************************************)
(* Claims about the rollups.  An entry is looked up by its key among the   *)
(* output's entries; sums and counts range over the records of the key.    *)
(***************************************************************************)
\* The sum of revenue over the records of aData at the positions I.
RECURSIVE RevenueOver(_)
RevenueOver(I) ==
  IF I = {} THEN 0
  ELSE LET i == CHOOSE i \in I : TRUE
       IN  aData[i].revenue + RevenueOver(I \ {i})

Positions == 1..Len(aData)

\* C13: the dashboard's totalRevenue is the sum of the records' revenue,
\* totalOrders the number of records (not the sum of their orders fields),
\* averageOrderValue their quotient, or 0 for no records, and customerCount
\* the number of distinct customerId values.
C13_DashboardMetrics ==
  aPc = "dashboardMetrics" =>
    /\ aOut.totalRevenue = RevenueOver(Positions)
    /\ aOut.totalOrders = Cardinality(Positions)
    /\ IF aData = <<>> THEN aOut.averageOrderValue = Whole(0)
       ELSE /\ aOut.averageOrderValue.den > 0
            /\ aOut.averageOrderValue.num * aOut.totalOrders
                 = aOut.totalRevenue * aOut.averageOrderValue.den
    /\ aOut.customerCount = Cardinality({ aData[i].customerId : i \in Positions })

C13_Witness ==
  /\ aPc = "dashboardMetrics"
  /\ Len(aData) = 3
  /\ aData[1].customerId = aData[3].customerId
  /\ aData[1].customerId # aData[2].customerId
  /\ aData[1].orders + aData[2].orders + aData[3].orders > 3
  /\ aOut.totalOrders = 3
  /\ aOut.customerCount = 2
  /\ aOut.averageOrderValue.den = 3

\* The first (smallest) position of a non-empty set of positions.
First(I) == CHOOSE i \in I : \A j \in I : i <= j

\* The positions of the records of product id.
OfProduct(id) == { i \in Positions : aData[i].productId = id }

\* C14: the product rollup has exactly one entry per distinct productId;
\* an entry's totalRevenue is the sum of revenue of the product's records,
\* totalOrders their number, averageOrderValue the quotient of the two, and
\* category the category of the product's first record.
C14_ProductRollup ==
  aPc = "productMetrics" =>
    /\ Len(aOut) = Cardinality({ aData[i].productId : i \in Positions })
    /\ \A i \in Positions :
         Cardinality({ n \in 1..Len(aOut) : aOut[n].productId = aData[i].productId }) = 1
    /\ \A n \in 1..Len(aOut) :
         LET I == OfProduct(aOut[n].productId)
         IN  /\ I # {}
             /\ aOut[n].totalRevenue = RevenueOver(I)
             /\ aOut[n].totalOrders = Cardinality(I)
             /\ aOut[n].averageOrderValue.den > 0
             /\ aOut[n].averageOrderValue.num * Cardinality(I)
                  = RevenueOver(I) * aOut[n].averageOrderValue.den
             /\ aOut[n].category = aData[First(I)].category

C14_Witness ==
  /\ aPc = "productMetrics"
  /\ Len(aData) = 3
  /\ aData[1].productId = P2 /\ aData[2].productId = P1 /\ aData[3].productId = P2
  /\ aData[1].category # aData[3].category
  /\ aData[1].revenue > 0 /\ aData[3].revenue > 0
  /\ Len(aOut) = 2
  /\ aOut[1].productId = P2
  /\ aOut[1].totalOrders = 2
  /\ aOut[1].category = aData[1].category

\* C15: an entry's name is 'Product ' followed by the productId when no
\* record of the product has a non-empty productName, and otherwise the
\* productName of the first record of the product that has one, whatever
\* later records are called.
C15_ProductName ==
  aPc = "productMetrics" =>
    \A n \in 1..Len(aOut) :
      LET named == { i \in OfProduct(aOut[n].productId) :
                       aData[i].productName # <<>> /\ aData[i].productName[1] # <<>> }
      IN  aOut[n].name =
            IF named = {} THEN ProductSpace \o aOut[n].productId
            ELSE aData[First(named)].productName[1]

\* The positions of the records of region r.
OfRegion(r) == { i \in Positions : aData[i].region = r }

\* C16: the region rollup has exactly one entry per distinct region; an
\* entry's revenue is the sum of revenue of the region's records, orders
\* their number, and customers the number of distinct customerId values
\* among them.
C16_RegionRollup ==
  aPc = "regionalPerformance" =>
    /\ Len(aOut) = Cardinality({ aData[i].region : i \in Positions })
    /\ \A i \in Positions :
         Cardinality({ n \in 1..Len(aOut) : aOut[n].region = aData[i].region }) = 1
    /\ \A n \in 1..Len(aOut) :
         LET I == OfRegion(aOut[n].region)
         IN  /\ I # {}
             /\ aOut[n].revenue = RevenueOver(I)
             /\ aOut[n].orders = Cardinality(I)
             /\ aOut[n].customers = Cardinality({ aData[i].customerId : i \in I })

C16_Witness ==
  /\ aPc = "regionalPerformance"
  /\ Len(aData) = 3
  /\ aData[1].region = "North" /\ aData[2].region = "North" /\ aData[3].region = "South"
  /\ aData[1].customerId = aData[2].customerId
  /\ aData[1].id # aData[2].id
  /\ Len(aOut) = 2
  /\ aOut[1].region = "North"
  /\ aOut[1].orders = 2
  /\ aOut[1].customers = 1

\* The start of the hour, day, week (from Sunday) or month a date falls in,
\* in hours from the epoch.
BucketStart(date, granularity) ==
  LET day == DayNumber(date.y, date.m, date.d)
  IN  CASE granularity = "hour"  -> day * 24 + date.h
        [] granularity = "day"   -> day * 24
        [] granularity = "week"  -> (day - (day % 7)) * 24
        [] granularity = "month" -> DayNumber(date.y, date.m, 1) * 24

\* The positions of the records whose bucket starts at the time t.
InBucket(t) == { i \in Positions : BucketStart(aData[i].date, aGranularity) = t }

\* C17: the time series has exactly one bucket per distinct truncated date,
\* stamped with the start of its hour, day, week or month; a bucket's value
\* is the sum of revenue of its records for the metric 'revenue' and their
\* number otherwise; and the timestamps are strictly ascending.
C17_TimeSeries ==
  aPc = "getTimeSeriesData" =>
    /\ Len(aOut) =
         Cardinality({ BucketStart(aData[i].date, aGranularity) : i \in Positions })
    /\ \A n \in 1..Len(aOut) :
         /\ aOut[n].timestamp.valid
         /\ LET I == InBucket(ValueOf(aOut[n].timestamp))
            IN  /\ I # {}
                /\ aOut[n].value =
                     IF aMetric = "revenue" THEN RevenueOver(I) ELSE Cardinality(I)
    /\ \A n \in 1..(Len(aOut) - 1) :
         ValueOf(aOut[n].timestamp) < ValueOf(aOut[n + 1].timestamp)

\* Three records given latest first, two of them in the week of a new year.
C17_Witness ==
  /\ aPc = "getTimeSeriesData"
  /\ aGranularity = "week" /\ aMetric = "revenue"
  /\ Len(aData) = 3
  /\ aData[1].date = At(2024, 1, 15, 10)
  /\ aData[2].date = At(2024, 1, 1, 0)
  /\ aData[3].date = At(2023, 12, 31, 23)
  /\ Len(aOut) = 2
  /\ aOut[1].timestamp = [valid |-> TRUE, y |-> 2023, m |-> 12, d |-> 31, h |-> 0]
  /\ aOut[1].value = aData[2].revenue + aData[3].revenue
  /\ aOut[2].timestamp = [valid |-> TRUE, y |-> 2024, m |-> 1, d |-> 14, h |-> 0]

(***************************************************************************)
(* VirtualizedChartComponent.virtualizeData as a function of the points    *)
(* and of maxDataPoints.  A point is a TimeSeriesData [timestamp, value]   *)
(* or a ChartDataPoint [x, y]; a value is the number n, [nan |-> FALSE,    *)
(* n |-> n], or NaN.  Indices are counted from 0, as in the code.          *)
(***************************************************************************)
MaxPoints == 5
MaxThreshold == 3

NotANumber == [nan |-> TRUE, n |-> 0]
Number(n) == [nan |-> FALSE, n |-> n]
Undefined == [undefined |-> TRUE]

\* Math.ceil(a / b) for integers a >= 0, b > 0.
Ceil(a, b) == (a + b - 1) \div b

\* 'value' in item ? item.value : item.y
PointValue(item) == IF "value" \in DOMAIN item THEN item.value ELSE item.y

\* Math.min(...values) and Math.max(...values) of a non-empty array: NaN as
\* soon as one value is NaN.
MathMin(values) ==
  IF \E k \in 1..Len(values) : values[k] = NotANumber THEN NotANumber
  ELSE CHOOSE m \in { values[k] : k \in 1..Len(values) } :
         \A k \in 1..Len(values) : m.n <= values[k].n

MathMax(values) ==
  IF \E k \in 1..Len(values) : values[k] = NotANumber THEN NotANumber
  ELSE CHOOSE m \in { values[k] : k \in 1..Len(values) } :
         \A k \in 1..Len(values) : m.n >= values[k].n

\* Array.prototype.indexOf: the first index holding x by strict equality,
\* which NaN never satisfies; -1 when there is none.
IndexOf(values, x) ==
  LET hits == { k \in 1..Len(values) : x # NotANumber /\ values[k] = x }
  IN  IF hits = {} THEN -1
      ELSE (CHOOSE k \in hits : \A j \in hits : k <= j) - 1

\* new Set(array): the distinct elements in order of first occurrence.
RECURSIVE SetOf(_)
SetOf(array) ==
  IF array = <<>> THEN <<>>
  ELSE LET front == SetOf(SubSeq(array, 1, Len(array) - 1))
           x == array[Len(array)]
       IN  IF \E k \in 1..Len(front) : front[k] = x THEN front ELSE Append(front, x)

\* Array.prototype.slice(from, to)
Slice(data, from, to) == SubSeq(data, from + 1, to)

\* chunk[index]: undefined outside the array.
ElementAt(chunk, index) ==
  IF index >= 0 /\ index < Len(chunk) THEN chunk[index + 1] ELSE Undefined

\* What one chunk contributes: its only point, or its first, minimum,
\* maximum and last points.
ChunkPoints(chunk) ==
  IF Len(chunk) = 1 THEN <<chunk[1]>>
  ELSE LET values == [k \in 1..Len(chunk) |-> PointValue(chunk[k])]
           minIndex == IndexOf(values, MathMin(values))
           maxIndex == IndexOf(values, MathMax(values))
           indicesToAdd == SetOf(<<0, minIndex, maxIndex, Len(chunk) - 1>>)
           pushed == SelectSeq(indicesToAdd, LAMBDA index : index < Len(chunk))
       IN  [k \in 1..Len(pushed) |-> ElementAt(chunk, pushed[k])]

\* for (let i = 0; i < data.length; i += step)
RECURSIVE ChunkLoop(_, _, _, _)
ChunkLoop(data, step, i, virtualizedData) ==
  IF i >= Len(data) THEN virtualizedData
  ELSE LET end == IF i + step < Len(data) THEN i + step ELSE Len(data)
       IN  ChunkLoop(data, step, i + step,
                     virtualizedData \o ChunkPoints(Slice(data, i, end)))

\* A step computed from the inverted ratio.
InvertedStep(length, threshold) == Ceil(threshold, length)

\* Math.ceil(data.length / this.maxDataPoints)
SampleStep(length, threshold) == Ceil(length, threshold)

\* A downsampler without the threshold test, in chunks of maxDataPoints.
virtualizeDataNoThreshold(data, threshold) == ChunkLoop(data, threshold, 0, <<>>)

virtualizeData(data, threshold) ==
  IF Len(data) <= threshold THEN data
  ELSE ChunkLoop(data, SampleStep(Len(data), threshold), 0, <<>>)

PointValues == {Number(0), Number(1), Number(2), NotANumber}

\* The series of TimeSeriesData and of ChartDataPoint with the values vs,
\* stamped with their positions.
TimeSeries(vs) == [k \in 1..Len(vs) |-> [timestamp |-> k, value |-> vs[k]]]
ChartPoints(vs) == [k \in 1..Len(vs) |-> [x |-> k, y |-> vs[k]]]

VirtualizeInit ==
  /\ \E vs \in SeqsUpTo(PointValues, MaxPoints) : vData \in {TimeSeries(vs), ChartPoints(vs)}
  /\ maxDataPoints \in 1..MaxThreshold
  /\ vOut = <<>>
  /\ vPc = "start"

\* const virtualizedData = this.virtualizeData(this.data)
Virtualize ==
  /\ vPc = "start"
  /\ vOut' = virtualizeData(vData, maxDataPoints)
  /\ vPc' = "done"
  /\ UNCHANGED <<vData, maxDataPoints, svcVars, filterVars, parseVars, tokVars, aggVars,
                 compVars>>

InitVirtualize ==
  VirtualizeInit /\ SvcIdle /\ FilterIdle /\ ParseIdle /\ TokIdle /\ AggIdle /\ CompIdle

SpecVirtualize == InitVirtualize /\ [][Virtualize]_vars

(***************************************************************************)
(* Claims about the downsampler.                                           *)
(***************************************************************************)
\* C18: a series no longer than maxDataPoints is returned unchanged.
C18_DownsampleIdentity ==
  (vPc = "done" /\ Len(vData) <= maxDataPoints) => vOut = vData

C18_Witness ==
  /\ vPc = "done"
  /\ Len(vData) = 3 /\ maxDataPoints = 3
  /\ vData = TimeSeries(<<Number(1), Number(0), Number(0)>>)
  /\ vOut = vData

\* C19: for maxDataPoints >= 1, a series longer than maxDataPoints gives
\* between 1 and 4 x maxDataPoints points.
C19_DownsampleBound ==
  (vPc = "done" /\ maxDataPoints >= 1 /\ Len(vData) > maxDataPoints) =>
    /\ Len(vOut) >= 1
    /\ Len(vOut) <= 4 * maxDataPoints

\* One chunk of five points gives its first, minimum, maximum and last.
C19_Witness ==
  /\ vPc = "done"
  /\ maxDataPoints = 1
  /\ Len(vData) = 5
  /\ Len(vOut) = 4
  /\ vOut = <<vData[1], vData[2], vData[4], vData[5]>>

\* C20: for maxDataPoints >= 1, a series longer than maxDataPoints gives
\* strictly fewer points than it has.
C20_DownsampleReduces ==
  (vPc = "done" /\ maxDataPoints >= 1 /\ Len(vData) > maxDataPoints) =>
    Len(vOut) < Len(vData)

(***************************************************************************)
(* Claims about what the downsampler emits.  The points of an input carry  *)
(* their position as timestamp or x, so an emitted point names the input   *)
(* index it came from; y <= y' is the order of numbers, which NaN is not   *)
(* part of.                                                                *)
(***************************************************************************)
Triggered == vPc = "done" /\ maxDataPoints >= 1 /\ Len(vData) > maxDataPoints

IsInputPoint(p) ==
  /\ "undefined" \notin DOMAIN p
  /\ \E i \in 1..Len(vData) : vData[i] = p

PositionOf(p) == IF "timestamp" \in DOMAIN p THEN p.timestamp ELSE p.x

AtMost(u, v) == ~u.nan /\ ~v.nan /\ u.n <= v.n

\* The positions lo..hi whose point has the least, the greatest y of them.
MinPositions(lo, hi) ==
  { i \in lo..hi : \A j \in lo..hi : AtMost(PointValue(vData[i]), PointValue(vData[j])) }
MaxPositions(lo, hi) ==
  { i \in lo..hi : \A j \in lo..hi : AtMost(PointValue(vData[j]), PointValue(vData[i])) }

\* The candidates for the point of least (greatest) y among lo..hi: the
\* positions that achieve it, or just the first position when the values
\* have no least (greatest) one, so that nothing more is asked for.
MinCandidates(lo, hi) == IF MinPositions(lo, hi) = {} THEN {lo} ELSE MinPositions(lo, hi)
MaxCandidates(lo, hi) == IF MaxPositions(lo, hi) = {} THEN {lo} ELSE MaxPositions(lo, hi)

\* A sequence without its repeated elements, first occurrences kept.
Distinct(seq) ==
  LET firsts == SelectSeq([k \in 1..Len(seq) |-> k],
                          LAMBDA k : \A j \in 1..(k - 1) : seq[j] # seq[k])
  IN  [k \in 1..Len(firsts) |-> seq[firsts[k]]]

ChunkSize == Ceil(Len(vData), maxDataPoints)
ChunkCount == Ceil(Len(vData), ChunkSize)
ChunkOf(i) == ((i - 1) \div ChunkSize) + 1
ChunkLo(c) == (c - 1) * ChunkSize + 1
ChunkHi(c) == IF c * ChunkSize < Len(vData) THEN c * ChunkSize ELSE Len(vData)

LoadCompleted == {"sampleLoaded", "importCsvOk", "importFileOk"}

\* C28: a load that completes after a later clearData call or a later
\* import has taken effect does not overwrite that operation's result: the
\* records stay empty when a load completes directly after clearData, and
\* the records of a completed import stay when the constructor's sample load
\* settles after it.
C28_StaleLoadNeverOverwrites ==
  [][ /\ (last.op = "clearData" /\ last'.op \in LoadCompleted) => salesData' = <<>>
      /\ (last.op \in {"importCsvOk", "importFileOk"}
            /\ last'.op \in {"sampleLoaded", "sampleFailed"}) => salesData' = salesData
    ]_vars

(***************************************************************************)
(* Records and filter criteria.                                            *)
(***************************************************************************)
SegmentChoices == { <<>>, <<"High Value">>, <<"Regular", "At Risk">> }

RECURSIVE Total(_, _)
Total(entries, field) ==
  IF entries = <<>> THEN 0
  ELSE entries[1][field] + Total(Tail(entries), field)

C26_ProductNameCarried ==
  ParseDone =>
    LET v == SourceView
    IN  \A i \in DataLines(v) :
          Kept(i) =>
            LET cell == CellOf(v, i, F_productName)
                record == RecordOf(i)
            IN  IF cell # <<>> /\ cell[1] # <<>>
                  THEN /\ "productName" \in DOMAIN record
                       /\ record.productName = cell[1]
                ELSE "productName" \notin DOMAIN record

(***************************************************************************)
(* Recomputation of the derived views.  Every value of filteredSalesData$  *)
(* runs each derived stream's map again, and every subscriber has a map of *)
(* its own; aOut collects the values one view computes from the same       *)
(* filtered records.  Math.random() is a choice the run makes at each      *)
(* call: a computation takes its values from a stream r, r[n] being the    *)
(* value of the n-th call, drawn from three streams over two values of     *)
(* [0, 1).                                                                 *)
(***************************************************************************)
MaxViewRecords == 2  \* length of the filtered record sets the views are recomputed over
MaxEmissions == 2    \* values one view computes from the same records

Abs(n) == IF n < 0 THEN 0 - n ELSE n

\* a / b for integers a and b > 0.
Ratio(a, b) == [num |-> a \div Gcd(Abs(a), b), den |-> b \div Gcd(Abs(a), b)]

\* Math.floor of a ratio.
Floor(q) == q.num \div q.den

Segments == <<"High Value", "Regular", "New Customer", "At Risk">>

RandomStreams ==
  LET calls == 1..(4 * Len(Segments))
      lo == Ratio(0, 1)
      hi == Ratio(1, 2)
  IN  { [n \in calls |-> lo], [n \in calls |-> hi],
        [n \in calls |-> IF n % 2 = 1 THEN lo ELSE hi] }

\* calculateProductMetrics with its Math.random() calls answered by r:
\* conversionRate is Math.random() * 0.1 + 0.02.
ProductMetricsDrawn(data, r) ==
  LET out == calculateProductMetrics(data)
  IN  [k \in 1..Len(out) |->
         LET u == r[out[k].conversionRate.draw]
         IN  [out[k] EXCEPT !.conversionRate = Ratio(10 * u.num + 2 * u.den, 100 * u.den)]]

\* calculateRegionalPerformance with its Math.random() calls answered by r:
\* growthRate is Math.random() * 0.4 - 0.1.
RegionalPerformanceDrawn(data, r) ==
  LET out == calculateRegionalPerformance(data)
  IN  [k \in 1..Len(out) |->
         LET u == r[out[k].growthRate.draw]
         IN  [out[k] EXCEPT !.growthRate = Ratio(4 * u.num - u.den, 10 * u.den)]]

\* segment_${index}
SegmentId(index) == <<"s", "e", "g", "m", "e", "n", "t", "_", DigitChars[index + 1]>>

\* calculateCustomerSegments: the records are not read; each segment makes
\* four Math.random() calls, in the order of its fields.
calculateCustomerSegments(data, r) ==
  [k \in 1..Len(Segments) |->
     LET index == k - 1
         call(j) == r[4 * index + j]
     IN  [segmentId            |-> SegmentId(index),
          name                 |-> Segments[k],
          customerCount        |-> Floor(Ratio(call(1).num * 1000, call(1).den)) + 100,
          totalRevenue         |-> Floor(Ratio(call(2).num * 100000, call(2).den)) + 10000,
          averageLifetimeValue |-> Floor(Ratio(call(3).num * 5000, call(3).den)) + 500,
          retentionRate        |-> Ratio(3 * call(4).num + 6 * call(4).den,
                                         10 * call(4).den)]]

RecomputeInit ==
  /\ aData \in SeqsUpTo(AggPool, MaxViewRecords)
  /\ aMetric = "none"
  /\ aGranularity = "none"
  /\ aOut = <<>>
  /\ aPc = "start"

\* One more value of the view: the map of the derived stream applied to the
\* same filtered records.
Emit(view, value) ==
  /\ aPc \in {"start", view}
  /\ Len(aOut) < MaxEmissions
  /\ aOut' = Append(aOut, value)
  /\ aPc' = view
  /\ UNCHANGED <<aMetric, aGranularity>>
  /\ AggFrame

recomputeDashboardMetrics == Emit("dashboardMetrics$", calculateDashboardMetrics(aData))
recomputeProductMetrics(r) == Emit("productMetrics$", ProductMetricsDrawn(aData, r))
recomputeCustomerSegments(r) == Emit("customerSegments$", calculateCustomerSegments(aData, r))
recomputeRegionalPerformance(r) ==
  Emit("regionalPerformance$", RegionalPerformanceDrawn(aData, r))

NextRecompute ==
  \/ recomputeDashboardMetrics
  \/ \E r \in RandomStreams : recomputeProductMetrics(r)
  \/ \E r \in RandomStreams : recomputeCustomerSegments(r)
  \/ \E r \in RandomStreams : recomputeRegionalPerformance(r)

InitRecompute ==
  RecomputeInit /\ SvcIdle /\ FilterIdle /\ ParseIdle /\ TokIdle /\ VirtIdle /\ CompIdle

SpecRecompute == InitRecompute /\ [][NextRecompute]_vars

\* C23: the values a derived view computes from the same filtered records
\* are equal, field for field.
C23_ViewsArePure ==
  \A i \in 1..Len(aOut), j \in 1..Len(aOut) : aOut[i] = aOut[j]

(***************************************************************************)
(* DataImportComponent.  A file is its name (a text) and its size in       *)
(* bytes.  The component's imports go through the service, which replaces  *)
(* the record set when one succeeds.                                       *)
(***************************************************************************)
MaxUploads == 2     \* imports the component starts during a run

TenMegabytes == 10 * 1024 * 1024

\* String.prototype.toLowerCase over the letters the file names use.
LowerCase(c) ==
  CASE c = "A" -> "a" [] c = "B" -> "b" [] c = "C" -> "c"
    [] c = "S" -> "s" [] c = "V" -> "v" [] OTHER -> c

ToLowerCase(str) == [k \in 1..Len(str) |-> LowerCase(str[k])]

\* String.prototype.endsWith
EndsWith(str, suffix) ==
  /\ Len(str) >= Len(suffix)
  /\ SubSeq(str, Len(str) - Len(suffix) + 1, Len(str)) = suffix

DotCsv == <<".", "c", "s", "v">>

SampleFileName ==
  <<"s", "a", "m", "p", "l", "e", "-", "s", "a", "l", "e", "s", "-",
    "d", "a", "t", "a", ".", "c", "s", "v">>

\* moment.format('MM/DD/YYYY')
FormatUs(date) ==
  Padded(date.m, 2) \o <<"/">> \o Padded(date.d, 2) \o <<"/">> \o Padded(date.y, 4)

\* calculateImportStats: the dates are sorted by valueOf and the first and
\* the last one are printed.
calculateImportStats(data) ==
  IF Len(data) = 0
    THEN [recordsImported |-> 0, dateRange |-> <<"N", "o", " ", "d", "a", "t", "a">>,
          totalRevenue |-> 0, uniqueProducts |-> 0]
  ELSE
    LET dates == { data[k].date : k \in 1..Len(data) }
        startDate == CHOOSE d \in dates : \A e \in dates : ValueOf(d) <= ValueOf(e)
        endDate == CHOOSE d \in dates : \A e \in dates : ValueOf(e) <= ValueOf(d)
    IN  [recordsImported |-> Len(data),
         dateRange       |-> FormatUs(startDate) \o <<" ", "-", " ">> \o FormatUs(endDate),
         totalRevenue    |-> SumRevenue(data),
         uniqueProducts  |-> Cardinality({ data[k].productId : k \in 1..Len(data) })]

\* The files a user can hand to the component.
FileNames ==
  { <<"a", ".", "c", "s", "v">>, <<"B", ".", "C", "S", "V">>,
    <<"a", ".", "t", "x", "t">>, <<"c", "s", "v">> }

Files == { [name |-> n, size |-> z] :
             n \in FileNames, z \in {1, TenMegabytes, TenMegabytes + 1} }

\* What an import can resolve to.
UploadResults ==
  LET r(id) == CHOOSE x \in AggPool : x.id = id
  IN  { <<>>, <<r("o2"), r("o1")>>, <<r("o7"), r("o5"), r("o6")>> }

ImportInit ==
  /\ isUploading = FALSE
  /\ uploadedFileName = Null
  /\ importStats = Null
  /\ uploads = {}
  /\ nextUpload = 0
  /\ snack = Handled("constructor", NoFile, "")

ImportFrame == UNCHANGED <<filterVars, parseVars, tokVars, aggVars, virtVars>>
ServiceUntouched == UNCHANGED svcVars
\* The service's part of a successful import or of clearData.
ServiceNext(data) == SalesDataNext(data) /\ UNCHANGED <<filters, pending, nextOp, last>>

\* processFile up to its first await: the two checks, then the signals are
\* set and importSalesDataFromFile is called.
processFile(file) ==
  /\ IF ~EndsWith(ToLowerCase(file.name), DotCsv)
       THEN /\ snack' = Handled("processFile", file, "Please select a CSV file")
            /\ UNCHANGED <<isUploading, uploadedFileName, importStats, uploads, nextUpload>>
     ELSE IF file.size > TenMegabytes
       THEN /\ snack' = Handled("processFile", file, "File size must be less than 10MB")
            /\ UNCHANGED <<isUploading, uploadedFileName, importStats, uploads, nextUpload>>
     ELSE /\ nextUpload < MaxUploads
          /\ isUploading' = TRUE
          /\ uploadedFileName' = Some(file.name)
          /\ uploads' = uploads \cup { [id |-> nextUpload, kind |-> "file", file |-> file] }
          /\ nextUpload' = nextUpload + 1
          /\ snack' = Handled("processFile", file, "")
          /\ UNCHANGED importStats
  /\ ServiceUntouched
  /\ ImportFrame

\* processFile after the await, the promise fulfilled: the try block's rest,
\* then finally.
processFileResolved(call, data) ==
  /\ call \in uploads /\ call.kind = "file"
  /\ uploads' = uploads \ {call}
  /\ ServiceNext(data)
  /\ importStats' = Some(calculateImportStats(data))
  /\ snack' = Handled("processFileResolved", call.file, "Successfully imported")
  /\ isUploading' = FALSE
  /\ UNCHANGED <<uploadedFileName, nextUpload>>
  /\ ImportFrame

\* processFile after the await, the promise rejected: catch, then finally.
processFileRejected(call) ==
  /\ call \in uploads /\ call.kind = "file"
  /\ uploads' = uploads \ {call}
  /\ snack' = Handled("processFileRejected", call.file, "Error importing CSV file")
  /\ uploadedFileName' = Null
  /\ isUploading' = FALSE
  /\ UNCHANGED <<importStats, nextUpload>>
  /\ ServiceUntouched
  /\ ImportFrame

SampleFile == [name |-> SampleFileName, size |-> 0]

\* loadSampleData up to the subscribe call.
loadSampleData ==
  /\ nextUpload < MaxUploads
  /\ isUploading' = TRUE
  /\ uploads' = uploads \cup { [id |-> nextUpload, kind |-> "sample", file |-> SampleFile] }
  /\ nextUpload' = nextUpload + 1
  /\ snack' = Handled("loadSampleData", SampleFile, "")
  /\ UNCHANGED <<uploadedFileName, importStats>>
  /\ ServiceUntouched
  /\ ImportFrame

\* The observable delivers the records and completes: next, then complete.
loadSampleDataLoaded(call, data) ==
  /\ call \in uploads /\ call.kind = "sample"
  /\ uploads' = uploads \ {call}
  /\ ServiceNext(data)
  /\ importStats' = Some(calculateImportStats(data))
  /\ uploadedFileName' = Some(SampleFileName)
  /\ snack' = Handled("loadSampleDataLoaded", call.file, "Sample data loaded")
  /\ isUploading' = FALSE
  /\ UNCHANGED nextUpload
  /\ ImportFrame

\* The observable fails: the error callback runs and the subscription ends;
\* an observable that has failed never calls complete.
loadSampleDataFailed(call) ==
  /\ call \in uploads /\ call.kind = "sample"
  /\ uploads' = uploads \ {call}
  /\ snack' = Handled("loadSampleDataFailed", call.file, "Error loading sample data")
  /\ UNCHANGED <<isUploading, uploadedFileName, importStats, nextUpload>>
  /\ ServiceUntouched
  /\ ImportFrame

\* DataImportComponent.clearData
clearImportedData ==
  /\ ServiceNext(<<>>)
  /\ uploadedFileName' = Null
  /\ importStats' = Null
  /\ snack' = Handled("clearData", NoFile, "Data cleared")
  /\ UNCHANGED <<isUploading, uploads, nextUpload>>
  /\ ImportFrame

NextImport ==
  \/ \E file \in Files : processFile(file)
  \/ \E call \in uploads, data \in UploadResults : processFileResolved(call, data)
  \/ \E call \in uploads : processFileRejected(call)
  \/ loadSampleData
  \/ \E call \in uploads, data \in UploadResults : loadSampleDataLoaded(call, data)
  \/ \E call \in uploads : loadSampleDataFailed(call)
  \/ clearImportedData

InitImport ==
  ImportInit /\ SvcIdle /\ FilterIdle /\ ParseIdle /\ TokIdle /\ AggIdle /\ VirtIdle

SpecImport == InitImport /\ [][NextImport]_vars

(***************************************************************************)
(* Claims about the import component.                                      *)
(***************************************************************************)
\* C24: loadSampleData sets isUploading at its start, and isUploading is
\* false once the load has settled, whether it delivered records or failed.
C24_SampleLoadSettles ==
  /\ snack.op = "loadSampleData" => isUploading = TRUE
  /\ snack.op \in {"loadSampleDataLoaded", "loadSampleDataFailed"} => isUploading = FALSE

\* Whether processFile turns the file away.
TurnedAway(file) ==
  \/ ~EndsWith(ToLowerCase(file.name), DotCsv)
  \/ file.size > TenMegabytes

FileImportInFlight == \E call \in uploads : call.kind = "file"

\* C25: processFile turns away a file that is not named *.csv or is larger
\* than 10 MB, without starting an import and without touching isUploading,
\* uploadedFileName or importStats; for another file isUploading is true
\* from the call until the import settles and false afterwards, and
\* uploadedFileName is the file's name after a success and null after a
\* failure.
C25_ProcessFile ==
  [][ /\ (snack'.op = "processFile" /\ TurnedAway(snack'.file)) =>
           UNCHANGED <<isUploading, uploadedFileName, importStats, uploads, salesData>>
      /\ (snack'.op = "processFile" /\ ~TurnedAway(snack'.file)) =>
           /\ isUploading' = TRUE
           /\ \E call \in uploads' \ uploads : call.file = snack'.file
      /\ FileImportInFlight' => isUploading' = TRUE
      /\ snack'.op = "processFileResolved" =>
           /\ isUploading' = FALSE
           /\ uploadedFileName' = Some(snack'.file.name)
      /\ snack'.op = "processFileRejected" =>
           /\ isUploading' = FALSE
           /\ uploadedFileName' = Null
    ]_vars

(***************************************************************************)
(* Emissions of the service's streams.                                     *)
(***************************************************************************)
\* The operations that change the service's state.
StateChanges ==
  {"updateFilters", "clearData", "sampleLoaded", "importCsvOk", "importFileOk"}

\* What a subscriber of dashboardMetrics$ received during the last operation:
\* map(calculateDashboardMetrics) over the emissions of filteredSalesData$.
DashboardEmissions(o) ==
  [k \in 1..Len(o.emitted) |-> calculateDashboardMetrics(o.emitted[k])]

\* C22: an updateFilters call, a clearData call or a completed load delivers
\* to every subscriber exactly one value of filteredSalesData$, and so one
\* value of a stream derived from it, and that value is computed from the
\* records and the filter as they are after the operation.
C22_OneEmissionPerChange ==
  last.op \in StateChanges =>
    \A i \in 1..Len(obs) :
      /\ obs[i].emitted = <<applyFilters(salesData, filters)>>
      /\ DashboardEmissions(obs[i]) =
           <<calculateDashboardMetrics(applyFilters(salesData, filters))>>

C22_Witness ==
  /\ last.op = "importCsvOk"
  /\ Len(obs) = 2
  /\ filters # InitialFilters
  /\ obs[1].emitted # <<salesData>>
  /\ obs[2].emitted # << <<>> >>

====
